---- MODULE Spec2Model ----
(***************************************************************************)
(* Model of the client-side scripts of UWCS/fulcrum.                       *)
(*                                                                         *)
(* Part 1: the multi-entry event form (src/unnamed/part_000, "MARK: time   *)
(* entry"): the list of .time-entry rows, the shared eventDuration, the    *)
(* duration text field and the add-time button.                            *)
(*                                                                         *)
(* Units.  A datetime-local value is a string "YYYY-MM-DDTHH:MM"; it is    *)
(* modelled by the number of whole minutes since 2024-01-01T00:00 local    *)
(* time, wrapped in a one-element sequence, and the empty string by the    *)
(* empty sequence.  The browser's timezone is taken to have a fixed        *)
(* offset.  Every millisecond quantity of the code (Date.getTime(),        *)
(* eventDuration, delta) is a multiple of 60000 and is modelled by its     *)
(* quotient in minutes.  A JavaScript number that may be NaN is modelled   *)
(* the same way: <<n>> for a number and << >> for NaN.                     *)
(*                                                                         *)
(* A text (the duration field) is a sequence of one-character strings.     *)
(*                                                                         *)
(* Part 2: formatDuration and parseDuration of the same script as pure     *)
(* functions, in minutes as above and also in milliseconds as written,     *)
(* for the arguments whose milliseconds fit the checker's 32-bit integers. *)
(*                                                                         *)
(* Part 3: the search autocomplete (src/static/js/search.js).  A fetch is  *)
(* "pending" until its response head arrives, "body" while response.json() *)
(* reads the body, "aborted" from controller.abort() until its rejection   *)
(* has been handled, and "done" afterwards.  The promise callbacks of one  *)
(* arrival run as one step: no event is dispatched between microtasks.     *)
(*                                                                         *)
(* Part 4: the single-entry event form (src/static/js/event-management.js) *)
(* with one start, one end and one duration field, in the units of Part 1. *)
(*                                                                         *)
(* Part 5: the API keys page (src/static/js/api-keys.js): the table filter *)
(* and the modal that shows a new key until it has been copied.            *)
(***************************************************************************)
EXTENDS Integers, Sequences, FiniteSets

VARIABLES
    entries,        \* the .time-entry rows in document order: [start, end, msg]
    eventDuration,  \* let eventDuration (part_000:96), in minutes
    durationValue,  \* durationInput.value, a text
    durationMsg,    \* durationInput's custom validity message
    addDisabled,    \* addTimeButton.classList.contains("disabled")
    pc,             \* "load" before initialiseTimes() has run, then "ready";
                    \* "left" once a submission has gone through
    steps,          \* user events handled since the page loaded
    last            \* history: the event handled last, the row it was on, and
                    \* the number of rows before it

formVars == <<entries, eventDuration, durationValue, durationMsg, addDisabled,
              pc, steps, last>>

\* Part 2: formatDuration and parseDuration called on their own
VARIABLES
    parseInput,     \* the text handed to parseDuration
    formatInput,    \* the number handed to formatDuration: [n, unit]
    result          \* the call made and what it returned

pureVars == <<parseInput, formatInput, result>>

\* Part 3: the search autocomplete (src/static/js/search.js)
VARIABLES
    searchValue,             \* searchInput.value, a text
    suggestions,             \* let suggestions, the rendered items in order
    highlightedIndex,        \* let highlightedIndex, -1 for none (0-based)
    requests,                \* every fetch issued so far: [query, state]
    currentAbortController,  \* index in requests of the fetch the current
                             \* controller belongs to, 0 for null
    focused,                 \* searchInput has the focus
    blurTimers,              \* pending setTimeout(clearSuggestions, 100)
    submitted,               \* << >>, or <<v>> once the form was submitted with v
    slast                    \* history: the event handled last

searchVars == <<searchValue, suggestions, highlightedIndex, requests,
                currentAbortController, focused, blurTimers, submitted, slast>>

\* Part 4: the single-entry event form (src/static/js/event-management.js)
VARIABLES
    emStart,        \* startTimeInput.value
    emEnd,          \* endTimeInput.value
    emDuration,     \* durationInput.value, a text
    emEndMsg,       \* endTimeInput's custom validity message
    emPc,           \* "load", "ready", or "left" once a submission went through
    emLast          \* history: the event handled last

singleVars == <<emStart, emEnd, emDuration, emEndMsg, emPc, emLast>>

\* Part 5: the API keys page (src/static/js/api-keys.js)
VARIABLES
    ownerSearch,    \* ownerInput.value, a text
    activeFilter,   \* activeSelect.value: "", "yes" or "no"
    rowDisplay,     \* row.style.display of every row of the table
    copiedKey,      \* let copiedKey
    modalShown,     \* the key modal is shown
    errorShown,     \* the error message does not have the class d-none
    copySucceeded,  \* the copy button has the class btn-success
    pendingCopies,  \* navigator.clipboard.writeText promises not yet settled
    klast           \* history: the event handled last, and whether a close
                    \* attempt has been refused so far

keysVars == <<ownerSearch, activeFilter, rowDisplay, copiedKey, modalShown,
              errorShown, copySucceeded, pendingCopies, klast>>

\* Part 6: one handler run of the form of Part 1, statement by statement
VARIABLES
    run             \* the form, the event, the position in the handler, the
                    \* loop index, the visits of each row, the handler runs
                    \* and the queue of events waiting for a listener

runVars == <<run>>

vars == <<formVars, pureVars, searchVars, singleVars, keysVars, runVars>>

-----------------------------------------------------------------------------
(* Bounds of the exploration *)

\* rows the list may grow to
MaxEntries == 4
\* suggestion requests issued on one page
MaxRequests == 3
\* blur timeouts pending at once
MaxTimers == 1
\* clipboard writes pending at once
MaxPendingCopies == 2
\* user events explored after the page has loaded
MaxSteps == 5

-----------------------------------------------------------------------------
(* Values *)

Blank == << >>                \* the empty string of a datetime-local input
NaN == << >>                  \* a number that is NaN (an Invalid Date's time)
Num(n) == <<n>>
At(day, hh, mm) == (day * 24 + hh) * 60 + mm   \* minutes since 2024-01-01T00:00

Plus(x, y) == IF x = NaN \/ y = NaN THEN NaN ELSE <<x[1] + y[1]>>
Minus(x, y) == IF x = NaN \/ y = NaN THEN NaN ELSE <<x[1] - y[1]>>
\* a comparison with NaN is false
GreaterEq(x, y) == x # NaN /\ y # NaN /\ x[1] >= y[1]

\* new Date(value).getTime(): NaN for the empty string
GetTime(value) == IF value = Blank THEN NaN ELSE Num(value[1])

EndMsg == "End time must be after start time."
DurMsg == "Please provide a valid duration in DD:HH:MM format."

Week == 7 * 24 * 60           \* let delta = 7 * 24 * 60 * 60 * 1000, in minutes

Digits == <<"0", "1", "2", "3", "4", "5", "6", "7", "8", "9">>
IsDigit(c) == \E i \in 1..10 : Digits[i] = c
DigitVal(c) == (CHOOSE i \in 1..10 : Digits[i] = c) - 1

\* Number("dd") of a two-digit text
Number2(t) == DigitVal(t[1]) * 10 + DigitVal(t[2])

RECURSIVE ToString(_)
\* n.toString() of an integer n >= 0
ToString(n) == IF n < 10 THEN <<Digits[n + 1]>>
               ELSE ToString(n \div 10) \o <<Digits[(n % 10) + 1]>>

\* s.padStart(2, "0")
PadStart2(s) == IF Len(s) >= 2 THEN s
                ELSE IF Len(s) = 1 THEN <<"0">> \o s ELSE <<"0", "0">>

\* formatDateTimeInput(new Date(t)) written to a datetime-local input: a valid
\* time gives its minute string; an Invalid Date gives "NaN-NaN-NaNTNaN:NaN",
\* and the bare NaN of line 282 gives "", both of which leave the input empty.
formatDateTimeInput(t) == IF t = NaN THEN Blank ELSE <<t[1]>>

\* mutant: the hours field is not padded
formatDurationNoPad(input) ==
    LET inp == IF input < 0 THEN 0 ELSE input
        days == inp \div (60 * 24)
        hours == (inp % (60 * 24)) \div 60
        minutes == inp % 60
    IN PadStart2(ToString(days)) \o <<":">> \o ToString(hours)
         \o <<":">> \o PadStart2(ToString(minutes))

\* convert a duration into DD:HH:MM
formatDuration(input) ==
    LET inp == IF input < 0 THEN 0 ELSE input
        days == inp \div (60 * 24)
        hours == (inp % (60 * 24)) \div 60
        minutes == inp % 60
    IN PadStart2(ToString(days)) \o <<":">> \o PadStart2(ToString(hours))
         \o <<":">> \o PadStart2(ToString(minutes))

\* /^\d{2}:\d{2}:\d{2}$/.test(input)
MatchesDuration(input) ==
    /\ Len(input) = 8
    /\ \A i \in {1, 2, 4, 5, 7, 8} : IsDigit(input[i])
    /\ input[3] = ":" /\ input[6] = ":"

\* mutant: the pattern is not anchored at the end of the text
parseDurationPrefix(input) ==
    IF Len(input) < 8 \/ ~MatchesDuration(SubSeq(input, 1, 8)) THEN 0
    ELSE LET days == Number2(SubSeq(input, 1, 2))
             hours == Number2(SubSeq(input, 4, 5))
             minutes == Number2(SubSeq(input, 7, 8))
         IN days * 24 * 60 + hours * 60 + minutes

\* parse DD:HH:MM; 0 when the text does not match
parseDuration(input) ==
    IF ~MatchesDuration(input) THEN 0
    ELSE LET days == Number2(SubSeq(input, 1, 2))
             hours == Number2(SubSeq(input, 4, 5))
             minutes == Number2(SubSeq(input, 7, 8))
         IN days * 24 * 60 + hours * 60 + minutes

\* the millisecond count of m minutes can be written down
FitsMs(m) == m >= 0 /\ m <= 2147483647 \div (1000 * 60)

\* mutant: the minutes are rounded to the nearest instead of floored
formatDurationMsRounds(input) ==
    LET inp == IF input < 0 THEN 0 ELSE input
        days == inp \div (1000 * 60 * 60 * 24)
        hours == (inp % (1000 * 60 * 60 * 24)) \div (1000 * 60 * 60)
        minutes == ((inp % (1000 * 60 * 60)) + 30000) \div (1000 * 60)
    IN PadStart2(ToString(days)) \o <<":">> \o PadStart2(ToString(hours))
         \o <<":">> \o PadStart2(ToString(minutes))

\* formatDuration on milliseconds, as written
formatDurationMs(input) ==
    LET inp == IF input < 0 THEN 0 ELSE input
        days == inp \div (1000 * 60 * 60 * 24)
        hours == (inp % (1000 * 60 * 60 * 24)) \div (1000 * 60 * 60)
        minutes == (inp % (1000 * 60 * 60)) \div (1000 * 60)
    IN PadStart2(ToString(days)) \o <<":">> \o PadStart2(ToString(hours))
         \o <<":">> \o PadStart2(ToString(minutes))

\* mutant: hours above 23 and minutes above 59 are rejected
parseDurationMsStrict(input) ==
    IF ~MatchesDuration(input) THEN 0
    ELSE LET days == Number2(SubSeq(input, 1, 2))
             hours == Number2(SubSeq(input, 4, 5))
             minutes == Number2(SubSeq(input, 7, 8))
         IN IF hours > 23 \/ minutes > 59 THEN 0
            ELSE (days * 24 * 60 * 60 + hours * 60 * 60 + minutes * 60) * 1000

\* parseDuration in milliseconds, as written; for texts of at most FitsMs
parseDurationMs(input) ==
    IF ~MatchesDuration(input) THEN 0
    ELSE LET days == Number2(SubSeq(input, 1, 2))
             hours == Number2(SubSeq(input, 4, 5))
             minutes == Number2(SubSeq(input, 7, 8))
         IN (days * 24 * 60 * 60 + hours * 60 * 60 + minutes * 60) * 1000

-----------------------------------------------------------------------------
(* The form as a record, so that the helpers compose as in the code *)

Form == [entries |-> entries, eventDuration |-> eventDuration,
         durationValue |-> durationValue, durationMsg |-> durationMsg,
         addDisabled |-> addDisabled]

\* mutant: an end equal to the start is accepted
validateEndTimeStrict(e) ==
    [e EXCEPT !.msg = IF GetTime(e.start) # NaN /\ GetTime(e.end) # NaN
                         /\ GetTime(e.start)[1] > GetTime(e.end)[1]
                      THEN EndMsg ELSE ""]

\* makes sure the end time is after the start time
validateEndTime(e) ==
    [e EXCEPT !.msg = IF GreaterEq(GetTime(e.start), GetTime(e.end))
                      THEN EndMsg ELSE ""]

\* mutant: only the first row is synchronised
syncEndTimesFirstOnly(f) ==
    [f EXCEPT !.entries =
        [i \in DOMAIN f.entries |->
            IF i > 1 THEN f.entries[i]
            ELSE validateEndTime([f.entries[i] EXCEPT !.end =
                    formatDateTimeInput(Plus(GetTime(f.entries[i].start),
                                             Num(f.eventDuration)))])]]

\* sync all end times based on the start time and event duration
syncEndTimes(f) ==
    [f EXCEPT !.entries =
        [i \in DOMAIN f.entries |->
            validateEndTime([f.entries[i] EXCEPT !.end =
                formatDateTimeInput(Plus(GetTime(f.entries[i].start),
                                         Num(f.eventDuration)))])]]

\* mutant: only an end edit on the first row redefines the duration
updateDurationFirstRowOnly(f, k) ==
    LET e == f.entries[k]
        duration == GetTime(e.end)[1] - GetTime(e.start)[1]
    IN IF e.start = Blank \/ e.end = Blank \/ k > 1 THEN f
       ELSE IF duration < 0
            THEN [f EXCEPT !.entries[k].msg = EndMsg]
            ELSE syncEndTimes([f EXCEPT !.entries[k].msg = "",
                                        !.eventDuration = duration,
                                        !.durationValue = formatDuration(duration)])

\* mutant: a negative duration is stored like any other
updateDurationNoSignCheck(f, k) ==
    LET e == f.entries[k]
        duration == GetTime(e.end)[1] - GetTime(e.start)[1]
    IN IF e.start = Blank \/ e.end = Blank THEN f
       ELSE syncEndTimes([f EXCEPT !.entries[k].msg = "",
                                   !.eventDuration = duration,
                                   !.durationValue = formatDuration(duration)])

\* mutant: an end before the start also resets the duration
updateDurationResetsOnNegative(f, k) ==
    LET e == f.entries[k]
        duration == GetTime(e.end)[1] - GetTime(e.start)[1]
    IN IF e.start = Blank \/ e.end = Blank THEN f
       ELSE IF duration < 0
            THEN [f EXCEPT !.entries[k].msg = EndMsg, !.eventDuration = 0]
            ELSE syncEndTimes([f EXCEPT !.entries[k].msg = "",
                                        !.eventDuration = duration,
                                        !.durationValue = formatDuration(duration)])

\* update the duration from the end input of row k
updateDuration(f, k) ==
    LET e == f.entries[k]
        duration == GetTime(e.end)[1] - GetTime(e.start)[1]
    IN IF e.start = Blank \/ e.end = Blank THEN f
       ELSE IF duration < 0
            THEN [f EXCEPT !.entries[k].msg = EndMsg]
            ELSE syncEndTimes([f EXCEPT !.entries[k].msg = "",
                                        !.eventDuration = duration,
                                        !.durationValue = formatDuration(duration)])

\* mutant: a change of the first row keeps the spacing to the second row that
\* the list shows
CascadeDeltaKeepSpacing(es, k) ==
    IF k > 1 /\ es[k - 1].start # Blank /\ es[k].start # Blank
    THEN GetTime(es[k].start)[1] - GetTime(es[k - 1].start)[1]
    ELSE IF k = 1 /\ Len(es) > 1 /\ es[1].start # Blank /\ es[2].start # Blank
         THEN GetTime(es[2].start)[1] - GetTime(es[1].start)[1]
         ELSE Week

\* mutant: the delta is always the default
CascadeDeltaAlwaysWeek(es, k) == Week

\* the delta of updateFutureStartTimes for the changed row k
CascadeDelta(es, k) ==
    IF k > 1 /\ es[k - 1].start # Blank /\ es[k].start # Blank
    THEN GetTime(es[k].start)[1] - GetTime(es[k - 1].start)[1]
    ELSE Week

RECURSIVE CascadeLoop(_, _, _, _)
\* the for loop of updateFutureStartTimes, from row i on
CascadeLoop(es, i, delta, dur) ==
    IF i > Len(es) THEN es
    ELSE IF es[i - 1].start = Blank THEN CascadeLoop(es, i + 1, delta, dur)
    ELSE LET newStartTime == Plus(GetTime(es[i - 1].start), Num(delta))
             newEndTime == Plus(newStartTime, Num(dur))
             e == [es[i] EXCEPT !.start = formatDateTimeInput(newStartTime),
                                !.end = formatDateTimeInput(newEndTime)]
         IN CascadeLoop([es EXCEPT ![i] = validateEndTime(e)], i + 1, delta, dur)

\* mutant: only the row right after the changed one is moved
updateFutureStartTimesNextOnly(f, k) ==
    IF k + 1 > Len(f.entries) THEN f
    ELSE [f EXCEPT !.entries =
             CascadeLoop(SubSeq(f.entries, 1, k + 1), k + 1,
                         CascadeDelta(f.entries, k), f.eventDuration)
             \o SubSeq(f.entries, k + 2, Len(f.entries))]

\* update all future start times based on the changed input of row k
updateFutureStartTimes(f, k) ==
    IF k + 1 > Len(f.entries) THEN f
    ELSE [f EXCEPT !.entries =
             CascadeLoop(f.entries, k + 1, CascadeDelta(f.entries, k),
                         f.eventDuration)]

\* enable the add time button if the first entry has a start time
toggleAddTimeButton(f) ==
    [f EXCEPT !.addDisabled =
        ~(Len(f.entries) >= 1 /\ f.entries[1].start # Blank)]

\* mutant: a start edit redefines the duration from the changed row
StartInputHandlerRederives(f0, k) ==
    LET f1 == toggleAddTimeButton(f0)
        f2 == [f1 EXCEPT !.addDisabled = FALSE]
        e == f2.entries[k]
        duration == GetTime(e.end)[1] - GetTime(e.start)[1]
    IN IF e.start = Blank \/ e.end = Blank \/ duration < 0
       THEN updateFutureStartTimes(f2, k)
       ELSE updateFutureStartTimes(
                [f2 EXCEPT !.eventDuration = duration,
                           !.durationValue = formatDuration(duration)], k)

\* timeFields "input" listener, input.name === "start_time[]", row k
StartInputHandler(f0, k) ==
    LET f1 == toggleAddTimeButton(f0)
        f2 == [f1 EXCEPT !.addDisabled = FALSE]
        f3 == updateFutureStartTimes(f2, k)
        e == f3.entries[k]
    IN IF f3.eventDuration <= 0 THEN f3
       ELSE [f3 EXCEPT !.entries[k] =
                validateEndTime([e EXCEPT !.end =
                    formatDateTimeInput(Plus(GetTime(e.start),
                                             Num(f3.eventDuration)))])]

\* timeFields "input" listener, input.name === "end_time[]", row k
EndInputHandler(f0, k) ==
    LET f1 == toggleAddTimeButton(f0)
        f2 == updateDuration(f1, k)
    IN [f2 EXCEPT !.entries[k] = validateEndTime(@)]

\* mutant: the end times are synchronised before eventDuration is assigned
DurationInputHandlerSyncFirst(f) ==
    LET duration == parseDuration(f.durationValue)
    IN IF duration > 0
       THEN [syncEndTimes(f) EXCEPT !.eventDuration = duration,
                                    !.durationMsg = ""]
       ELSE [f EXCEPT !.durationMsg = DurMsg]

\* mutant: a text that does not parse resets the duration
DurationInputHandlerResets(f) ==
    LET duration == parseDuration(f.durationValue)
    IN IF duration > 0
       THEN [syncEndTimes([f EXCEPT !.eventDuration = duration])
                EXCEPT !.durationMsg = ""]
       ELSE [f EXCEPT !.durationMsg = DurMsg, !.eventDuration = 0]

\* durationInput "input" listener
DurationInputHandler(f) ==
    LET duration == parseDuration(f.durationValue)
    IN IF duration > 0
       THEN [syncEndTimes([f EXCEPT !.eventDuration = duration])
                EXCEPT !.durationMsg = ""]
       ELSE [f EXCEPT !.durationMsg = DurMsg]

\* mutant: the delta is always the default
AddDeltaAlwaysWeek(es) == Num(Week)

\* the delta of the add-time click: NaN when the penultimate start is empty
AddDelta(es) ==
    IF Len(es) > 1
    THEN Minus(GetTime(es[Len(es)].start), GetTime(es[Len(es) - 1].start))
    ELSE Num(Week)

\* mutant: the check of the last row's start is missing
AddTimeHandlerNoGuard(f) ==
    LET es == f.entries
        prevStart == es[Len(es)].start
        newStartTime == Plus(GetTime(prevStart), AddDelta(es))
        newEndTime == IF f.eventDuration > 0
                      THEN Plus(newStartTime, Num(f.eventDuration)) ELSE NaN
    IN [f EXCEPT !.entries = Append(es,
            [start |-> formatDateTimeInput(newStartTime),
             end |-> formatDateTimeInput(newEndTime),
             msg |-> ""])]

\* addTimeButton "click" listener
AddTimeHandler(f) ==
    LET es == f.entries
        prevStart == es[Len(es)].start
        newStartTime == Plus(GetTime(prevStart), AddDelta(es))
        newEndTime == IF f.eventDuration > 0
                      THEN Plus(newStartTime, Num(f.eventDuration)) ELSE NaN
    IN IF prevStart = Blank THEN f
       ELSE [f EXCEPT !.entries = Append(es,
                [start |-> formatDateTimeInput(newStartTime),
                 end |-> formatDateTimeInput(newEndTime),
                 msg |-> ""])]

\* mutant: the last row is removed, whichever button was clicked
RemoveHandlerLast(f, k) ==
    [f EXCEPT !.entries = SubSeq(f.entries, 1, Len(f.entries) - 1)]

\* timeFields "click" listener on the remove button of row k
RemoveHandler(f, k) ==
    [f EXCEPT !.entries = SubSeq(f.entries, 1, k - 1)
                            \o SubSeq(f.entries, k + 1, Len(f.entries))]

\* mutant: the end times are not validated on load
initialiseTimesNoValidate(f) ==
    IF Len(f.entries) = 0 THEN f
    ELSE
    LET first == f.entries[1]
        fromTimes == GetTime(first.end)[1] - GetTime(first.start)[1]
        fromText == parseDuration(f.durationValue)
        f1 == IF first.start # Blank /\ first.end # Blank
              THEN IF fromTimes >= 0
                   THEN [f EXCEPT !.eventDuration = fromTimes,
                                  !.durationValue = formatDuration(fromTimes)]
                   ELSE f
              ELSE IF fromText > 0
                   THEN IF first.start # Blank
                        THEN [f EXCEPT !.eventDuration = fromText,
                                       !.entries[1].end = formatDateTimeInput(
                                           Plus(GetTime(first.start), Num(fromText)))]
                        ELSE [f EXCEPT !.eventDuration = fromText]
                   ELSE f
    IN toggleAddTimeButton(f1)

\* form.checkValidity(): no control of the form holds a custom validity
\* message and the constraints of the markup (native) are met
checkValidity(f, native) ==
    /\ native
    /\ \A i \in DOMAIN f.entries : f.entries[i].msg = ""
    /\ f.durationMsg = ""

\* mutant: the submission is never prevented
SubmitHandlerNeverPrevents(f, native) == FALSE

\* form "submit" listener: whether it calls event.preventDefault()
SubmitHandler(f, native) == ~checkValidity(f, native)

\* initialiseTimes()
initialiseTimes(f) ==
    IF Len(f.entries) = 0 THEN f
    ELSE
    LET first == f.entries[1]
        fromTimes == GetTime(first.end)[1] - GetTime(first.start)[1]
        fromText == parseDuration(f.durationValue)
        f1 == IF first.start # Blank /\ first.end # Blank
              THEN IF fromTimes >= 0
                   THEN [f EXCEPT !.eventDuration = fromTimes,
                                  !.durationValue = formatDuration(fromTimes)]
                   ELSE f
              ELSE IF fromText > 0
                   THEN IF first.start # Blank
                        THEN [f EXCEPT !.eventDuration = fromText,
                                       !.entries[1].end = formatDateTimeInput(
                                           Plus(GetTime(first.start), Num(fromText)))]
                        ELSE [f EXCEPT !.eventDuration = fromText]
                   ELSE f
        f2 == [f1 EXCEPT !.entries =
                  [i \in DOMAIN f1.entries |-> validateEndTime(f1.entries[i])]]
    IN toggleAddTimeButton(f2)

-----------------------------------------------------------------------------
(* Inputs *)


T_070130 == <<"0", "7", ":", "0", "1", ":", "3", "0">>   \* 7 d 1 h 30 min
T_000200 == <<"0", "0", ":", "0", "2", ":", "0", "0">>   \* 2 h
T_000000 == <<"0", "0", ":", "0", "0", ":", "0", "0">>   \* matches, parses to 0
T_1_30 == <<"1", ":", "3", "0">>                         \* does not match
T_empty == << >>

DurationInputs == {T_070130, T_000000, T_1_30}

\* values a user gives a start field
StartInputs == {Blank, <<At(1, 9, 0)>>, <<At(2, 9, 0)>>}
\* values a user gives an end field
EndInputs == {Blank, <<At(1, 9, 0)>>, <<At(1, 11, 0)>>}

-----------------------------------------------------------------------------
(* The state machine *)

Commit(f) ==
    /\ entries' = f.entries
    /\ eventDuration' = f.eventDuration
    /\ durationValue' = f.durationValue
    /\ durationMsg' = f.durationMsg
    /\ addDisabled' = f.addDisabled
    /\ UNCHANGED <<pureVars, searchVars, singleVars, keysVars, runVars>>

\* let suggestions = [], highlightedIndex = -1, currentAbortController = null
\* (search.js:8-11); the search box is empty and nothing was fetched
SearchLoaded ==
    /\ searchValue = << >>
    /\ suggestions = << >>
    /\ highlightedIndex = -1
    /\ requests = << >>
    /\ currentAbortController = 0
    /\ focused = FALSE
    /\ blurTimers = 0
    /\ submitted = << >>
    /\ slast = [op |-> "none"]

\* the rows of the API keys table: owner and active cell
Rows ==
    <<[owner |-> <<"A", "n", "n">>, active |-> <<"Y", "e", "s">>],
      [owner |-> <<"d", "a", "n">>, active |-> <<"N", "o">>]>>

\* the API keys page as served: no filter, every row visible, a new key in
\* the modal, nothing copied
KeysServed ==
    /\ ownerSearch = << >>
    /\ activeFilter = ""
    /\ rowDisplay = [i \in DOMAIN Rows |-> ""]
    /\ copiedKey = FALSE
    /\ modalShown = TRUE
    /\ errorShown = FALSE
    /\ copySucceeded = FALSE
    /\ pendingCopies = 0
    /\ klast = [op |-> "none", refused |-> FALSE]

\* the single-entry form as served with empty fields, its script not yet run
SingleServed ==
    /\ emStart = Blank
    /\ emEnd = Blank
    /\ emDuration = << >>
    /\ emEndMsg = ""
    /\ emPc = "load"
    /\ emLast = [op |-> "none"]

\* no handler run of Part 6 is under observation
RunIdle == run = [pc |-> "none"]

\* no call of Part 2 is under observation
NoCall ==
    /\ parseInput = T_empty
    /\ formatInput = [n |-> 0, unit |-> "ms"]
    /\ result = [fn |-> "none"]

\* the page as served: one .time-entry row whose start and end are empty or
\* prefilled, a duration field that is empty or holds text the browser
\* restored, no custom validity set, the add button's class as in the markup;
\* the script has not run yet
Init ==
    /\ \E s \in {Blank, <<At(0, 9, 0)>>}, e \in {Blank, <<At(0, 11, 0)>>, <<At(0, 8, 0)>>} :
           entries = <<[start |-> s, end |-> e, msg |-> ""]>>
    /\ eventDuration = 0
    /\ durationValue \in {T_empty, T_000200}
    /\ durationMsg = ""
    /\ addDisabled \in BOOLEAN
    /\ pc = "load"
    /\ steps = 0
    /\ last = [op |-> "none", k |-> 0, n |-> 1]
    /\ NoCall
    /\ SearchLoaded
    /\ SingleServed
    /\ KeysServed
    /\ RunIdle

Initialise ==
    /\ pc = "load"
    /\ Commit(initialiseTimes(Form))
    /\ pc' = "ready"
    /\ UNCHANGED steps
    /\ last' = [op |-> "init", k |-> 0, n |-> Len(entries)]

StartEdit ==
    /\ pc = "ready"
    /\ steps < MaxSteps
    /\ \E k \in 1..Len(entries), v \in StartInputs :
        /\ Commit(StartInputHandler([Form EXCEPT !.entries[k].start = v], k))
        /\ last' = [op |-> "start", k |-> k, n |-> Len(entries)]
    /\ steps' = steps + 1
    /\ UNCHANGED pc

EndEdit ==
    /\ pc = "ready"
    /\ steps < MaxSteps
    /\ \E k \in 1..Len(entries), v \in EndInputs :
        /\ Commit(EndInputHandler([Form EXCEPT !.entries[k].end = v], k))
        /\ last' = [op |-> "end", k |-> k, n |-> Len(entries)]
    /\ steps' = steps + 1
    /\ UNCHANGED pc

DurationEdit ==
    /\ pc = "ready"
    /\ steps < MaxSteps
    /\ \E t \in DurationInputs :
        /\ Commit(DurationInputHandler([Form EXCEPT !.durationValue = t]))
        /\ last' = [op |-> "duration", k |-> 0, n |-> Len(entries)]
    /\ steps' = steps + 1
    /\ UNCHANGED pc

AddEntry ==
    /\ pc = "ready"
    /\ steps < MaxSteps
    /\ Len(entries) >= 1
    /\ Len(entries) < MaxEntries \/ entries[Len(entries)].start = Blank
    /\ Commit(AddTimeHandler(Form))
    /\ last' = [op |-> "add", k |-> 0, n |-> Len(entries)]
    /\ steps' = steps + 1
    /\ UNCHANGED pc

\* only the rows built by the add-time click (lines 285-307) carry a
\* .remove-time-entry button
RemoveEntry ==
    /\ pc = "ready"
    /\ steps < MaxSteps
    /\ \E k \in 2..Len(entries) :
        /\ Commit(RemoveHandler(Form, k))
        /\ last' = [op |-> "remove", k |-> k, n |-> Len(entries)]
    /\ steps' = steps + 1
    /\ UNCHANGED pc

\* the user submits the form; the fields outside the time entries meet the
\* constraints of the markup or not
Submit ==
    /\ pc = "ready"
    /\ steps < MaxSteps
    /\ \E native \in BOOLEAN :
        /\ pc' = IF SubmitHandler(Form, native) THEN "ready" ELSE "left"
        /\ last' = [op |-> "submit", k |-> 0, n |-> Len(entries),
                    native |-> native]
    /\ steps' = steps + 1
    /\ UNCHANGED <<entries, eventDuration, durationValue, durationMsg,
                   addDisabled, pureVars, searchVars, singleVars, keysVars, runVars>>

Next ==
    \/ Initialise
    \/ StartEdit
    \/ EndEdit
    \/ DurationEdit
    \/ AddEntry
    \/ RemoveEntry
    \/ Submit

Spec == Init /\ [][Next]_vars

-----------------------------------------------------------------------------
(* Properties of the multi-entry form *)

Ready == pc = "ready"
HasStart(e) == e.start # Blank
HasEnd(e) == e.end # Blank
\* the entry's end is its start plus d minutes
EndIsStartPlus(e, d) == HasStart(e) /\ e.end = <<e.start[1] + d>>

\* C1 as stated: after every completed operation, every entry that has a start
\* while eventDuration > 0 has end = start + eventDuration; the only exception
\* is the entry whose end was edited last, that edit having set eventDuration
\* to its end minus its start.
C1_EndsFollowDuration ==
    (Ready /\ eventDuration > 0) =>
        \A i \in DOMAIN entries :
            HasStart(entries[i]) =>
                \/ EndIsStartPlus(entries[i], eventDuration)
                \/ /\ last.op = "end" /\ last.k = i
                   /\ HasEnd(entries[i])
                   /\ eventDuration = entries[i].end[1] - entries[i].start[1]

\* C1 amended: after every completed operation, every entry that has a start
\* while eventDuration > 0 has end = start + eventDuration, except an entry
\* whose end is empty or earlier than its start (the value a rejected end
\* edit leaves behind, eventDuration not being redefined by it).
C1_EndsFollowDurationUnlessRejected ==
    (Ready /\ eventDuration > 0) =>
        \A i \in DOMAIN entries :
            HasStart(entries[i]) =>
                \/ EndIsStartPlus(entries[i], eventDuration)
                \/ ~HasEnd(entries[i])
                \/ entries[i].end[1] < entries[i].start[1]

\* an end edit was rejected on a row while a duration is set, and another row
\* still follows the duration
C1_Witness ==
    /\ Ready /\ eventDuration > 0 /\ last.op = "end" /\ Len(entries) >= 2
    /\ HasStart(entries[last.k]) /\ HasEnd(entries[last.k])
    /\ entries[last.k].end[1] < entries[last.k].start[1]
    /\ \E j \in DOMAIN entries :
           j # last.k /\ EndIsStartPlus(entries[j], eventDuration)

\* C2: a duration-field edit whose text parses to d > 0 sets eventDuration = d
\* and the end of every entry that has a start to start + d, and changes no
\* start; "07:01:30" is 7 days 1 hour 30 minutes.
C2_DurationEditSyncsEnds ==
    [][(last'.op = "duration" /\ parseDuration(durationValue') > 0) =>
          /\ eventDuration' = parseDuration(durationValue')
          /\ (durationValue' = T_070130 => eventDuration' = (7 * 24 + 1) * 60 + 30)
          /\ Len(entries') = Len(entries)
          /\ \A i \in DOMAIN entries :
                /\ entries'[i].start = entries[i].start
                /\ HasStart(entries'[i]) =>
                       EndIsStartPlus(entries'[i], eventDuration')]_vars

\* "07:01:30" was typed while a row started at 2024-01-01T09:00: that row now
\* ends at 2024-01-08T10:30, and a second row was synchronised too
C2_Witness ==
    /\ Ready /\ last.op = "duration" /\ durationValue = T_070130
    /\ Len(entries) >= 2
    /\ entries[1].start = <<At(0, 9, 0)>> /\ entries[1].end = <<At(7, 10, 30)>>
    /\ EndIsStartPlus(entries[2], eventDuration)

\* C3: an end edit on any row whose start is set and whose new end is >= its
\* start sets eventDuration = end - start, writes its DD:HH:MM text into the
\* duration field (two hours give "00:02:00") and resets the end of every
\* other row that has a start to that row's start + eventDuration.
C3_EndEditRedefinesDuration ==
    (Ready /\ last.op = "end") =>
        LET e == entries[last.k] IN
        (HasStart(e) /\ HasEnd(e) /\ e.end[1] >= e.start[1]) =>
            /\ eventDuration = e.end[1] - e.start[1]
            /\ durationValue = formatDuration(eventDuration)
            /\ (eventDuration = 120 => durationValue = T_000200)
            /\ \A j \in DOMAIN entries :
                   (j # last.k /\ HasStart(entries[j])) =>
                       EndIsStartPlus(entries[j], eventDuration)

\* the end of a row other than the first was edited to two hours after its
\* start, and the first row follows
C3_Witness ==
    /\ Ready /\ last.op = "end" /\ last.k >= 2
    /\ HasStart(entries[last.k]) /\ HasEnd(entries[last.k])
    /\ eventDuration = 120 /\ durationValue = T_000200
    /\ entries[last.k].end[1] = entries[last.k].start[1] + 120
    /\ EndIsStartPlus(entries[1], 120)

\* C4 as stated: in a list of two entries whose starts are both set, editing
\* entry 0's start to s' makes entry 1's start s' + d, d being the spacing the
\* two starts had before the edit.
C4_FirstStartEditKeepsSpacing ==
    [][(/\ last'.op = "start" /\ last'.k = 1 /\ Len(entries) = 2
        /\ HasStart(entries[1]) /\ HasStart(entries[2])
        /\ HasStart(entries'[1])) =>
          entries'[2].start =
              <<entries'[1].start[1]
                  + (entries[2].start[1] - entries[1].start[1])>>]_vars

\* C4 amended: in a list of two entries whose starts are both set, editing
\* entry 0's start to a non-empty s' makes entry 1's start s' + 7 days,
\* whatever spacing the two starts had before the edit.
C4_FirstStartEditUsesWeek ==
    [][(/\ last'.op = "start" /\ last'.k = 1 /\ Len(entries) = 2
        /\ HasStart(entries[1]) /\ HasStart(entries[2])
        /\ HasStart(entries'[1])) =>
          /\ Len(entries') = 2
          /\ entries'[2].start = <<entries'[1].start[1] + 7 * 24 * 60>>]_vars

\* entry 0 was moved to 2024-01-02T09:00 in a list of two: entry 1 now starts
\* at 2024-01-09T09:00
C4_Witness ==
    /\ Ready /\ last.op = "start" /\ last.k = 1 /\ Len(entries) = 2
    /\ entries[1].start = <<At(1, 9, 0)>>
    /\ entries[2].start = <<At(8, 9, 0)>>

\* the delta C5 states for a start edit on row k of the list es (es as it was
\* before the edit): 7 days when fewer than two other rows have a start,
\* otherwise the spacing between the starts of the two rows before row k
C5_StatedDelta(es, k) ==
    IF Cardinality({j \in DOMAIN es : j # k /\ HasStart(es[j])}) < 2
    THEN 7 * 24 * 60
    ELSE es[k - 1].start[1] - es[k - 2].start[1]

\* where C5's delta is defined
C5_StatedDeltaDefined(es, k) ==
    \/ Cardinality({j \in DOMAIN es : j # k /\ HasStart(es[j])}) < 2
    \/ k >= 3 /\ HasStart(es[k - 1]) /\ HasStart(es[k - 2])

\* C5 as stated: editing entry k's start to a value cascades
\* start[i] = start[i-1] + delta to the entries after it, delta being 7 days
\* when fewer than two starts exist elsewhere and the spacing between the
\* starts of entries k-1 and k-2 otherwise.
C5_CascadeUsesEarlierSpacing ==
    [][(/\ last'.op = "start" /\ HasStart(entries'[last'.k])
        /\ C5_StatedDeltaDefined(entries, last'.k)) =>
          \A i \in (last'.k + 1)..Len(entries) :
              entries'[i].start =
                  <<entries'[i - 1].start[1]
                      + C5_StatedDelta(entries, last'.k)>>]_vars

\* C5 amended: editing entry k's start cascades to the entries after it with
\* delta = 7 days when k is the first entry, or entry k-1's start or the new
\* start is empty, and delta = (new start of k) - (start of k-1) otherwise;
\* in list order each later entry gets the start of its predecessor + delta,
\* and keeps its start when its predecessor's start is empty.
C5_CascadeUsesNewSpacing ==
    [][last'.op = "start" =>
          LET k == last'.k
              delta == IF k > 1 /\ HasStart(entries[k - 1]) /\ HasStart(entries'[k])
                       THEN entries'[k].start[1] - entries[k - 1].start[1]
                       ELSE 7 * 24 * 60
          IN /\ Len(entries') = Len(entries)
             /\ \A i \in 1..(k - 1) : entries'[i].start = entries[i].start
             /\ \A i \in (k + 1)..Len(entries) :
                    IF HasStart(entries'[i - 1])
                    THEN entries'[i].start = <<entries'[i - 1].start[1] + delta>>
                    ELSE entries'[i].start = entries[i].start]_vars

\* the second of three rows was edited: the third follows at the distance
\* between the second's new start and the first's start, which is not a week
C5_Witness ==
    /\ Ready /\ last.op = "start" /\ last.k = 2 /\ Len(entries) = 3
    /\ HasStart(entries[1]) /\ HasStart(entries[2]) /\ HasStart(entries[3])
    /\ entries[2].start[1] - entries[1].start[1] # 7 * 24 * 60
    /\ entries[3].start[1] - entries[2].start[1]
           = entries[2].start[1] - entries[1].start[1]

\* C6: while eventDuration is 0, a start edit changes no end value and no end
\* validity message, neither of the edited entry nor of the entries the
\* cascade reaches.
C6_StartEditLeavesEndsWithoutDuration ==
    [][(last'.op = "start" /\ eventDuration = 0) =>
          /\ Len(entries') = Len(entries)
          /\ \A i \in DOMAIN entries :
                /\ entries'[i].end = entries[i].end
                /\ entries'[i].msg = entries[i].msg]_vars

\* C7: after an end edit, the edited entry's end carries "End time must be
\* after start time" exactly when its start and end are both present and
\* start >= end; in every other case it carries no message.
C7_EndMessageIffNotAfterStart ==
    (Ready /\ last.op = "end") =>
        LET e == entries[last.k] IN
        /\ e.msg \in {"", "End time must be after start time."}
        /\ e.msg # "" <=> (HasStart(e) /\ HasEnd(e) /\ e.start[1] >= e.end[1])

\* an end was set earlier than its row's start, and the row carries the message
C7_Witness ==
    /\ Ready /\ last.op = "end"
    /\ HasStart(entries[last.k]) /\ HasEnd(entries[last.k])
    /\ entries[last.k].start[1] > entries[last.k].end[1]
    /\ entries[last.k].msg = "End time must be after start time."

\* C8: after initialise and after every edit of a start or end field, the add
\* control is enabled exactly when the first entry has a non-empty start.
C8_AddEnabledIffFirstHasStart ==
    (Ready /\ last.op \in {"init", "start", "end"}) =>
        (~addDisabled <=> HasStart(entries[1]))

\* C9: addEntry while the last entry's start is empty changes nothing: not the
\* list, not any entry's start, end or validity, not eventDuration, not the
\* duration field or its validity.
C9_AddWithoutLastStartIsNoOp ==
    [][(last'.op = "add" /\ ~HasStart(entries[Len(entries)])) =>
          /\ entries' = entries
          /\ eventDuration' = eventDuration
          /\ durationValue' = durationValue
          /\ durationMsg' = durationMsg]_vars

\* add was clicked on a list of two rows whose last start was empty
C9_Witness ==
    /\ Ready /\ last.op = "add" /\ last.n = 2 /\ Len(entries) = 2
    /\ ~HasStart(entries[2]) /\ HasStart(entries[1])

\* C10: when the last entry has a start, addEntry appends one entry whose start
\* is last.start + delta, delta being 7 days for a list of one and
\* last.start - penultimate.start (not a number when that start is empty) for
\* a longer list; its end is its start + eventDuration when eventDuration > 0
\* and absent otherwise; the existing entries and eventDuration are unchanged.
C10_AddAppendsNextOccurrence ==
    [][(last'.op = "add" /\ HasStart(entries[Len(entries)])) =>
          LET n == Len(entries)
              delta == IF n = 1 THEN Num(7 * 24 * 60)
                       ELSE Minus(GetTime(entries[n].start),
                                  GetTime(entries[n - 1].start))
              start == Plus(GetTime(entries[n].start), delta)
          IN /\ Len(entries') = n + 1
             /\ SubSeq(entries', 1, n) = entries
             /\ eventDuration' = eventDuration
             /\ entries'[n + 1].start = start
             /\ entries'[n + 1].end =
                    IF eventDuration > 0 THEN Plus(start, Num(eventDuration))
                    ELSE Blank]_vars

\* a third row was appended at the spacing of the first two, which is not a
\* week, with its end at start + eventDuration
C10_Witness ==
    /\ Ready /\ last.op = "add" /\ last.n = 2 /\ Len(entries) = 3
    /\ eventDuration > 0
    /\ HasStart(entries[1]) /\ HasStart(entries[2]) /\ HasStart(entries[3])
    /\ entries[2].start[1] - entries[1].start[1] # 7 * 24 * 60
    /\ entries[3].start[1] - entries[2].start[1]
           = entries[2].start[1] - entries[1].start[1]
    /\ EndIsStartPlus(entries[3], eventDuration)

\* C11: removeEntry on entry k deletes exactly that entry: the entries before
\* and after it keep their order, start, end and validity, and eventDuration
\* and the duration field are unchanged.
C11_RemoveDeletesOnlyThatEntry ==
    [][last'.op = "remove" =>
          LET k == last'.k IN
          /\ Len(entries') = Len(entries) - 1
          /\ \A i \in 1..(k - 1) : entries'[i] = entries[i]
          /\ \A i \in (k + 1)..Len(entries) : entries'[i - 1] = entries[i]
          /\ eventDuration' = eventDuration
          /\ durationValue' = durationValue
          /\ durationMsg' = durationMsg]_vars

\* the middle one of three weekly rows was removed: the two that remain are
\* two weeks apart
C11_Witness ==
    /\ Ready /\ last.op = "remove" /\ last.k = 2 /\ last.n = 3
    /\ Len(entries) = 2
    /\ HasStart(entries[1]) /\ HasStart(entries[2])
    /\ entries[2].start[1] - entries[1].start[1] = 2 * 7 * 24 * 60

\* C12: eventDuration is non-negative in every reachable state.
C12_DurationNonNegative == eventDuration >= 0

\* an end was set before its row's start while a duration was established
C12_Witness ==
    /\ Ready /\ last.op = "end" /\ eventDuration > 0
    /\ HasStart(entries[last.k]) /\ HasEnd(entries[last.k])
    /\ entries[last.k].end[1] < entries[last.k].start[1]
    /\ entries[last.k].msg # ""

\* C13: a duration-field edit whose text does not parse to a positive duration
\* leaves eventDuration and every entry's start, end and end validity
\* unchanged, and leaves the fixed message on the duration field.
C13_InvalidDurationTextChangesNothing ==
    [][(last'.op = "duration" /\ parseDuration(durationValue') <= 0) =>
          /\ eventDuration' = eventDuration
          /\ entries' = entries
          /\ durationMsg' =
                 "Please provide a valid duration in DD:HH:MM format."]_vars

\* "1:30" was typed into the duration field of a list of two rows that has a
\* duration
C13_Witness ==
    /\ Ready /\ last.op = "duration" /\ durationValue = T_1_30
    /\ durationMsg # "" /\ eventDuration > 0 /\ Len(entries) >= 2
    /\ EndIsStartPlus(entries[2], eventDuration)

\* C18: after initialise: if the first entry has a start and an end with
\* end - start >= 0, eventDuration is that difference and the duration field
\* shows it as DD:HH:MM; otherwise, if the first entry lacks a start or an end
\* and the duration text parses to d > 0, eventDuration = d and the first
\* entry's end is start + d if it has a start; in every case each entry's end
\* carries the message exactly when start >= end, and the add control is
\* enabled exactly when the first entry has a start.
C18_InitialiseDerivesDuration ==
    [][last'.op = "init" =>
          LET first == entries[1]
              both == HasStart(first) /\ HasEnd(first)
              d == parseDuration(durationValue)
          IN /\ (both /\ first.end[1] - first.start[1] >= 0) =>
                    /\ eventDuration' = first.end[1] - first.start[1]
                    /\ durationValue' = formatDuration(eventDuration')
                    /\ (eventDuration' = 120 => durationValue' = T_000200)
             /\ (~both /\ d > 0) =>
                    /\ eventDuration' = d
                    /\ (durationValue = T_000200 => eventDuration' = 120)
                    /\ HasStart(first) =>
                           EndIsStartPlus(entries'[1], d)
             /\ \A i \in DOMAIN entries' :
                    entries'[i].msg # "" <=>
                        /\ HasStart(entries'[i]) /\ HasEnd(entries'[i])
                        /\ entries'[i].start[1] >= entries'[i].end[1]
             /\ ~addDisabled' <=> HasStart(entries'[1])]_vars

\* the page has just been initialised with a first entry from 09:00 to 11:00
\* and "00:02:00" in the duration field
C18_Witness ==
    /\ Ready /\ last.op = "init" /\ steps = 0
    /\ entries[1].start = <<At(0, 9, 0)>> /\ entries[1].end = <<At(0, 11, 0)>>
    /\ eventDuration = 120 /\ durationValue = T_000200
    /\ ~addDisabled

-----------------------------------------------------------------------------
(* Part 2: formatDuration and parseDuration as pure functions *)

\* the two-digit text of n in 0..99
Field(n) == <<Digits[(n \div 10) + 1], Digits[(n % 10) + 1]>>
DurationText(d, h, m) ==
    Field(d) \o <<":">> \o Field(h) \o <<":">> \o Field(m)

\* DD:HH:MM with DD in 00..99, HH in 00..23 and MM in 00..59: every pair of
\* days and hours, and every pair of hours and minutes
DaysFields == 0..99
HoursFields == 0..23
MinutesFields == 0..59
DaysSample == {0, 1, 7, 10, 99}
MinutesSample == {0, 1, 9, 10, 30, 59}
ValidTexts ==
    {DurationText(d, h, m) : d \in DaysFields, h \in HoursFields,
                             m \in MinutesSample}
    \cup {DurationText(d, h, m) : d \in DaysSample, h \in HoursFields,
                                  m \in MinutesFields}

\* digit texts whose hours or minutes are out of range
LenientFields == {0, 7, 23, 24, 25, 59, 60, 99}
LenientTexts ==
    {DurationText(d, h, m) : d \in LenientFields, h \in LenientFields,
                             m \in LenientFields}

\* texts one edit away from a DD:HH:MM: a character deleted, inserted (three
\* digits in a field, a leading or trailing character) or replaced
BaseTexts == {T_000200, T_070130, DurationText(12, 34, 56)}
OddChars == {"1", ":", " ", "-", "a", ".", "\n"}
Deleted(t, i) == SubSeq(t, 1, i - 1) \o SubSeq(t, i + 1, Len(t))
Inserted(t, i, c) == SubSeq(t, 1, i) \o <<c>> \o SubSeq(t, i + 1, Len(t))
Replaced(t, i, c) == [t EXCEPT ![i] = c]
EditedTexts ==
    UNION {{Deleted(t, i) : i \in 1..Len(t)}
           \cup {Inserted(t, i, c) : i \in 0..Len(t), c \in OddChars}
           \cup {Replaced(t, i, c) : i \in 1..Len(t), c \in OddChars}
           : t \in BaseTexts}
ShortTexts ==
    {T_empty, T_1_30, <<"1", ":", "2", ":", "3">>, <<"0", "1", ":", "3", "0">>,
     <<"9", "0">>, <<":", ":">>, T_000200 \o <<":">> \o <<"0", "0">>}

ParseInputs == ValidTexts \cup LenientTexts \cup EditedTexts \cup ShortTexts

MsPerMinute == 1000 * 60
MsPerHour == 1000 * 60 * 60
MsPerDay == 1000 * 60 * 60 * 24

\* millisecond counts around every boundary of the decomposition
FormatMs ==
    {d * MsPerDay + h * MsPerHour + m * MsPerMinute + r :
        d \in {0, 1, 9, 10, 23}, h \in {0, 1, 9, 10, 23},
        m \in {0, 1, 9, 10, 59}, r \in {0, 1, 29999, 30000, 59999}}
    \cup {-1, -59999, -60000, -MsPerHour, -MsPerDay, -2147483647, 2147483647}
\* minute counts whose milliseconds exceed 32 bits, up to four-digit days
FormatMinutes ==
    {(d * 24 + h) * 60 + m :
        d \in {25, 99, 100, 101, 999, 1000}, h \in {0, 9, 23}, m \in {0, 9, 59}}
FormatInputs ==
    [n : FormatMs, unit : {"ms"}] \cup [n : FormatMinutes, unit : {"min"}]

\* the form of Part 1 as served with empty fields, its script not yet run
FormServed ==
    /\ entries = <<[start |-> Blank, end |-> Blank, msg |-> ""]>>
    /\ eventDuration = 0
    /\ durationValue = T_empty
    /\ durationMsg = ""
    /\ addDisabled = TRUE
    /\ pc = "load"
    /\ steps = 0
    /\ last = [op |-> "none", k |-> 0, n |-> 1]

\* one argument is drawn; nothing has been called yet
InitPure ==
    /\ \/ parseInput \in ParseInputs /\ formatInput = [n |-> 0, unit |-> "ms"]
       \/ parseInput = T_empty /\ formatInput \in FormatInputs
    /\ result = [fn |-> "none"]
    /\ FormServed
    /\ SearchLoaded
    /\ SingleServed
    /\ KeysServed
    /\ RunIdle

CallParseDuration ==
    /\ result.fn = "none"
    /\ result' = [fn |-> "parseDuration",
                  min |-> parseDuration(parseInput),
                  ms |-> IF FitsMs(parseDuration(parseInput))
                         THEN <<parseDurationMs(parseInput)>> ELSE << >>]
    /\ UNCHANGED <<parseInput, formatInput, formVars, searchVars, singleVars,
                   keysVars, runVars>>

CallFormatDuration ==
    /\ result.fn = "none"
    /\ result' = [fn |-> "formatDuration",
                  text |-> IF formatInput.unit = "ms"
                           THEN formatDurationMs(formatInput.n)
                           ELSE formatDuration(formatInput.n)]
    /\ UNCHANGED <<parseInput, formatInput, formVars, searchVars, singleVars,
                   keysVars, runVars>>

\* formatDuration(parseDuration(s))
CallFormatOfParse ==
    /\ result.fn = "none"
    /\ result' = [fn |-> "formatOfParse",
                  text |-> formatDuration(parseDuration(parseInput))]
    /\ UNCHANGED <<parseInput, formatInput, formVars, searchVars, singleVars,
                   keysVars, runVars>>

NextPure ==
    \/ CallParseDuration
    \/ CallFormatDuration
    \/ CallFormatOfParse

SpecPure == InitPure /\ [][NextPure]_vars

-----------------------------------------------------------------------------
(* Properties of formatDuration and parseDuration *)

DigitChars == {"0", "1", "2", "3", "4", "5", "6", "7", "8", "9"}
\* exactly two digits, colon, two digits, colon, two digits
IsDDHHMM(t) ==
    /\ Len(t) = 8
    /\ t[3] = ":" /\ t[6] = ":"
    /\ {t[1], t[2], t[4], t[5], t[7], t[8]} \subseteq DigitChars
\* the number written by the two digits at positions i and i + 1
FieldAt(t, i) == CHOOSE n \in 0..99 : Field(n) = <<t[i], t[i + 1]>>
\* the decimal numeral of n in 0..9999, at least two digits wide
Padded(n) ==
    IF n < 100 THEN Field(n)
    ELSE IF n < 1000 THEN <<Digits[(n \div 100) + 1]>> \o Field(n % 100)
    ELSE Field(n \div 100) \o Field(n % 100)

\* C14: formatDuration(parseDuration(s)) = s for every string s of the form
\* DD:HH:MM with DD in 00..99, HH in 00..23 and MM in 00..59.
C14_FormatOfParseIsIdentity ==
    (/\ result.fn = "formatOfParse"
     /\ IsDDHHMM(parseInput)
     /\ FieldAt(parseInput, 4) <= 23
     /\ FieldAt(parseInput, 7) <= 59) =>
        result.text = parseInput

\* "99:23:59" went through parseDuration and formatDuration
C14_Witness ==
    /\ result.fn = "formatOfParse"
    /\ parseInput = <<"9", "9", ":", "2", "3", ":", "5", "9">>
    /\ result.text = parseInput

\* C15: parseDuration returns 0 for every string that is not exactly two
\* digits, colon, two digits, colon, two digits (the empty string, one-digit or
\* three-digit fields, extra leading or trailing characters).
C15_ParseRejectsOtherShapes ==
    (result.fn = "parseDuration" /\ ~IsDDHHMM(parseInput)) =>
        result.min = 0 /\ result.ms = <<0>>

\* "07:01:301", a DD:HH:MM followed by one more digit, was parsed
C15_Witness ==
    /\ result.fn = "parseDuration"
    /\ parseInput = T_070130 \o <<"1">>
    /\ result.min = 0

\* C16: for every DD:HH:MM made of digits parseDuration returns
\* ((D*24+H)*60+M)*60*1000 milliseconds, hours above 23 and minutes above 59
\* included: "00:25:00" is 25 hours.
C16_ParseIsLenient ==
    (result.fn = "parseDuration" /\ IsDDHHMM(parseInput)) =>
        LET D == FieldAt(parseInput, 1)
            H == FieldAt(parseInput, 4)
            M == FieldAt(parseInput, 7)
        IN /\ result.min = (D * 24 + H) * 60 + M
           /\ FitsMs(result.min) =>
                  result.ms = <<((D * 24 + H) * 60 + M) * 60 * 1000>>
           /\ parseInput = DurationText(0, 25, 0) =>
                  result.ms = <<25 * 60 * 60 * 1000>>

\* "00:25:00" was parsed
C16_Witness ==
    /\ result.fn = "parseDuration"
    /\ parseInput = <<"0", "0", ":", "2", "5", ":", "0", "0">>
    /\ result.min = 25 * 60

\* C17: formatDuration is total: for every integer ms it returns the
\* formatting of max(ms, 0) as days:hours:minutes with days =
\* floor(ms/86400000), hours in 0..23, minutes in 0..59, days*1440 + hours*60
\* + minutes = floor(ms/60000), each field zero-padded to width 2.
C17_FormatDecomposes ==
    result.fn = "formatDuration" =>
        LET clamped == IF formatInput.n < 0 THEN 0 ELSE formatInput.n
            wholeMinutes == IF formatInput.unit = "ms"
                            THEN clamped \div 60000 ELSE clamped
            days == IF formatInput.unit = "ms"
                    THEN clamped \div 86400000 ELSE clamped \div 1440
        IN \E hours \in 0..23, minutes \in 0..59 :
               /\ days * 1440 + hours * 60 + minutes = wholeMinutes
               /\ result.text = Padded(days) \o <<":">> \o Padded(hours)
                                    \o <<":">> \o Padded(minutes)

\* 1 day 1 hour 1 minute 59.999 seconds was formatted
C17_Witness ==
    /\ result.fn = "formatDuration"
    /\ formatInput = [n |-> 86400000 + 3600000 + 60000 + 59999, unit |-> "ms"]
    /\ result.text = <<"0", "1", ":", "0", "1", ":", "0", "1">>

\* C38: for every whole-minute duration d >= 0 that an end edit or initialise
\* can store in eventDuration (the difference of two datetime-local values),
\* the text formatDuration(d) written to the duration field is a DD:HH:MM
\* that parseDuration accepts, and parseDuration(formatDuration(d)) = d.
C38_ParseOfFormatIsIdentity ==
    (/\ result.fn = "formatDuration"
     /\ formatInput.n >= 0
     /\ formatInput.unit = "ms" => formatInput.n % MsPerMinute = 0) =>
        /\ IsDDHHMM(result.text)
        /\ IF formatInput.unit = "ms"
           THEN parseDurationMs(result.text) = formatInput.n
           ELSE parseDuration(result.text) = formatInput.n

-----------------------------------------------------------------------------
(* Part 3: the search autocomplete *)

Min(a, b) == IF a <= b THEN a ELSE b
Max(a, b) == IF a >= b THEN a ELSE b

RECURSIVE TrimStart(_)
TrimStart(t) == IF t # << >> /\ Head(t) = " " THEN TrimStart(Tail(t)) ELSE t
RECURSIVE TrimEnd(_)
TrimEnd(t) == IF t # << >> /\ t[Len(t)] = " "
              THEN TrimEnd(SubSeq(t, 1, Len(t) - 1)) ELSE t
\* value.trim()
Trim(t) == TrimEnd(TrimStart(t))

\* the script's variables and the elements it writes, as a record
Search ==
    [value |-> searchValue, suggestions |-> suggestions,
     highlightedIndex |-> highlightedIndex, requests |-> requests,
     currentAbortController |-> currentAbortController, focused |-> focused]

\* mutant: the highlight is not reset
clearSuggestionsKeepsHighlight(s) ==
    [s EXCEPT !.suggestions = << >>]

clearSuggestions(s) ==
    [s EXCEPT !.suggestions = << >>, !.highlightedIndex = -1]

\* an empty list returns before highlightedIndex is reset
renderSuggestions(s, items) ==
    IF Len(items) = 0 THEN [s EXCEPT !.suggestions = << >>]
    ELSE [s EXCEPT !.suggestions = items, !.highlightedIndex = -1]

setHighlight(s, index) == [s EXCEPT !.highlightedIndex = index]

chooseSuggestion(s, item) ==
    IF item < 0 \/ item >= Len(s.suggestions) THEN s
    ELSE [clearSuggestions([s EXCEPT !.value = s.suggestions[item + 1]])
             EXCEPT !.focused = TRUE]

InFlight(r) == r.state \in {"pending", "body"}

\* currentAbortController.abort(): a fetch still in flight rejects with an
\* AbortError; a settled one is not affected
Abort(rs, c) ==
    IF c # 0 /\ InFlight(rs[c]) THEN [rs EXCEPT ![c].state = "aborted"] ELSE rs

\* const SUGGESTION_LIMIT
SUGGESTION_LIMIT == 5

\* mutant: the fetch in flight is not aborted
fetchSuggestionsNoAbort(s, query) ==
    [s EXCEPT !.requests = Append(s.requests,
                                  [query |-> query, limit |-> SUGGESTION_LIMIT,
                                   state |-> "pending"]),
              !.currentAbortController = Len(s.requests) + 1]

\* mutant: twice the limit is asked for
fetchSuggestionsDoubleLimit(s, query) ==
    [s EXCEPT !.requests = Append(Abort(s.requests, s.currentAbortController),
                                  [query |-> query,
                                   limit |-> 2 * SUGGESTION_LIMIT,
                                   state |-> "pending"]),
              !.currentAbortController = Len(s.requests) + 1]

\* the request carries the parameters query and limit
fetchSuggestions(s, query) ==
    [s EXCEPT !.requests = Append(Abort(s.requests, s.currentAbortController),
                                  [query |-> query, limit |-> SUGGESTION_LIMIT,
                                   state |-> "pending"]),
              !.currentAbortController = Len(s.requests) + 1]

\* mutant: the length of the untrimmed text is tested
onInputNoTrim(s) ==
    LET query == Trim(s.value)
    IN IF Len(s.value) < 3 THEN clearSuggestions(s)
       ELSE fetchSuggestions(s, query)

onInput(s) ==
    LET query == Trim(s.value)
    IN IF Len(query) < 3 THEN clearSuggestions(s)
       ELSE fetchSuggestions(s, query)

\* mutant: ArrowDown on the last suggestion wraps round to the first
onKeyDownWraps(s, key) ==
    LET h == s.highlightedIndex
        n == Len(s.suggestions)
        none == [s |-> s, prevented |-> FALSE, submit |-> FALSE]
    IN IF n = 0 THEN none
       ELSE CASE key = "ArrowDown" ->
                   [none EXCEPT !.s = setHighlight(s, (h + 1) % n),
                                !.prevented = TRUE]
              [] key = "ArrowUp" ->
                   [none EXCEPT !.s = setHighlight(s, Max(h - 1, -1)),
                                !.prevented = TRUE]
              [] key = "Enter" ->
                   IF h >= 0 /\ h < n
                   THEN [s |-> chooseSuggestion(s, h), prevented |-> TRUE,
                         submit |-> TRUE]
                   ELSE none
              [] key = "Tab" ->
                   IF h >= 0 /\ h < n
                   THEN [none EXCEPT !.s = chooseSuggestion(s, h),
                                     !.prevented = TRUE]
                   ELSE none
              [] key = "Escape" -> [none EXCEPT !.s = clearSuggestions(s)]
              [] OTHER -> none

\* onKeyDown(event): the state it leaves, whether it called preventDefault()
\* and whether it called searchForm.submit()
onKeyDown(s, key) ==
    LET h == s.highlightedIndex
        n == Len(s.suggestions)
        none == [s |-> s, prevented |-> FALSE, submit |-> FALSE]
    IN IF n = 0 THEN none
       ELSE CASE key = "ArrowDown" ->
                   [none EXCEPT !.s = setHighlight(s, Min(h + 1, n - 1)),
                                !.prevented = TRUE]
              [] key = "ArrowUp" ->
                   [none EXCEPT !.s = setHighlight(s, Max(h - 1, -1)),
                                !.prevented = TRUE]
              [] key = "Enter" ->
                   IF h >= 0 /\ h < n
                   THEN [s |-> chooseSuggestion(s, h), prevented |-> TRUE,
                         submit |-> TRUE]
                   ELSE none
              [] key = "Tab" ->
                   IF h >= 0 /\ h < n
                   THEN [none EXCEPT !.s = chooseSuggestion(s, h),
                                     !.prevented = TRUE]
                   ELSE none
              [] key = "Escape" -> [none EXCEPT !.s = clearSuggestions(s)]
              [] OTHER -> none

-----------------------------------------------------------------------------
(* Inputs of the search autocomplete *)

\* texts typed into the search box: empty, shorter than 3 characters with
\* and without surrounding blanks, and a query with and without them
TypedValues ==
    {<< >>, <<"a", "b">>, <<" ", "a", "b", " ">>, <<"a", "b", "c">>,
     <<" ", "a", "b", "c", " ">>}
Keys == {"ArrowDown", "ArrowUp", "Enter", "Tab", "Escape"}

Item1 == <<"a", "b", "c", "1">>
Item2 == <<"a", "b", "c", "2">>
Item3 == <<"a", "b", "c", "3">>
Item4 == <<"a", "b", "c", "4">>
Item5 == <<"a", "b", "c", "5">>
Item6 == <<"a", "b", "c", "6">>
\* JSON arrays of suggestions
Arrays ==
    {<< >>, <<Item1>>, <<Item2, Item1>>, <<Item1, Item2, Item3>>,
     <<Item1, Item2, Item3, Item4, Item5>>,
     <<Item1, Item2, Item3, Item4, Item5, Item6>>}
\* the arrays /api/search/complete/ may answer a request with: at most as
\* many items as its limit parameter asks for
ServerArrays(limit) == {a \in Arrays : Len(a) <= limit}

-----------------------------------------------------------------------------
(* The search autocomplete as a state machine *)

CommitSearch(s) ==
    /\ searchValue' = s.value
    /\ suggestions' = s.suggestions
    /\ highlightedIndex' = s.highlightedIndex
    /\ requests' = s.requests
    /\ currentAbortController' = s.currentAbortController
    /\ focused' = s.focused
    /\ UNCHANGED <<formVars, pureVars, singleVars, keysVars, runVars>>

\* the page has not been left by a form submission
OnPage == submitted = << >>

InitSearch ==
    /\ SearchLoaded
    /\ FormServed
    /\ NoCall
    /\ SingleServed
    /\ KeysServed
    /\ RunIdle

\* the user clicks into the search box
Focus ==
    /\ OnPage /\ ~focused
    /\ CommitSearch([Search EXCEPT !.focused = TRUE])
    /\ slast' = [op |-> "focus"]
    /\ UNCHANGED <<blurTimers, submitted>>

\* "blur" listener: setTimeout(clearSuggestions, 100)
Blur ==
    /\ OnPage /\ focused
    /\ blurTimers < MaxTimers
    /\ CommitSearch([Search EXCEPT !.focused = FALSE])
    /\ blurTimers' = blurTimers + 1
    /\ slast' = [op |-> "blur"]
    /\ UNCHANGED submitted

\* the timeout set by a blur expires
BlurTimeout ==
    /\ OnPage /\ blurTimers > 0
    /\ CommitSearch(clearSuggestions(Search))
    /\ blurTimers' = blurTimers - 1
    /\ slast' = [op |-> "timeout"]
    /\ UNCHANGED submitted

\* document "click" listener, for a click outside the form and the list
ClickOutside ==
    /\ OnPage /\ ~focused
    /\ CommitSearch(clearSuggestions(Search))
    /\ slast' = [op |-> "clickOutside"]
    /\ UNCHANGED <<blurTimers, submitted>>

\* "input" listener: the user changed the text of the search box
InputEvent ==
    /\ OnPage /\ focused
    /\ \E v \in TypedValues :
        /\ v # searchValue
        /\ Len(Trim(v)) < 3 \/ Len(requests) < MaxRequests
        /\ CommitSearch(onInput([Search EXCEPT !.value = v]))
    /\ slast' = [op |-> "input", h |-> highlightedIndex,
                 n |-> Len(suggestions)]
    /\ UNCHANGED <<blurTimers, submitted>>

\* "keydown" listener; Enter that was not prevented may submit the form with
\* the text as typed, Tab that was not prevented moves the focus on
KeyDown ==
    /\ OnPage /\ focused
    /\ \E key \in Keys, implicit \in BOOLEAN :
        LET r == onKeyDown(Search, key)
            leaves == key = "Tab" /\ ~r.prevented
        IN /\ leaves => blurTimers < MaxTimers
           /\ implicit => (key = "Enter" /\ ~r.prevented)
           /\ CommitSearch(IF leaves THEN [r.s EXCEPT !.focused = FALSE]
                           ELSE r.s)
           /\ blurTimers' = IF leaves THEN blurTimers + 1 ELSE blurTimers
           /\ submitted' = IF r.submit \/ implicit THEN <<r.s.value>>
                           ELSE submitted
           /\ slast' = [op |-> "keydown", key |-> key,
                        h |-> highlightedIndex, n |-> Len(suggestions)]

\* "click" listener of the rendered item number index: the mouse press takes
\* the focus from the search box, then the item is chosen and the form
\* submitted
ClickSuggestion ==
    /\ OnPage
    /\ \E index \in 0..(Len(suggestions) - 1) :
        LET s == chooseSuggestion(Search, index)
        IN /\ focused => blurTimers < MaxTimers
           /\ CommitSearch(s)
           /\ blurTimers' = IF focused THEN blurTimers + 1 ELSE blurTimers
           /\ submitted' = <<s.value>>
           /\ slast' = [op |-> "click", index |-> index]

Settled(i) == [requests EXCEPT ![i].state = "done"]

\* the response head of fetch i arrives: response.ok starts response.json(),
\* any other status is rendered as an empty list
ResponseArrives ==
    /\ OnPage
    /\ \E i \in DOMAIN requests, ok \in BOOLEAN :
        /\ requests[i].state = "pending"
        /\ IF ok
           THEN CommitSearch([Search EXCEPT !.requests[i].state = "body"])
           ELSE CommitSearch(renderSuggestions(
                    [Search EXCEPT !.requests = Settled(i)], << >>))
        /\ slast' = [op |-> "head", req |-> i, aborted |-> FALSE, ok |-> ok,
                     h |-> highlightedIndex, n |-> Len(suggestions)]
    /\ UNCHANGED <<blurTimers, submitted>>

\* response.json() of fetch i resolves: an array is rendered, anything else
\* is dropped
BodyArrives ==
    /\ OnPage
    /\ \E i \in DOMAIN requests, isArray \in BOOLEAN :
        /\ requests[i].state = "body"
        /\ IF isArray
           THEN \E data \in ServerArrays(requests[i].limit) :
                   CommitSearch(renderSuggestions(
                       [Search EXCEPT !.requests = Settled(i)], data))
           ELSE CommitSearch([Search EXCEPT !.requests = Settled(i)])
        /\ slast' = [op |-> "body", req |-> i, aborted |-> FALSE,
                     h |-> highlightedIndex, n |-> Len(suggestions)]
    /\ UNCHANGED <<blurTimers, submitted>>

\* fetch i rejects with a network error, or its body is not JSON: the catch
\* handler logs it and clears the suggestions
FetchFails ==
    /\ OnPage
    /\ \E i \in DOMAIN requests :
        /\ InFlight(requests[i])
        /\ CommitSearch(clearSuggestions(
               [Search EXCEPT !.requests = Settled(i)]))
        /\ slast' = [op |-> "error", req |-> i, aborted |-> FALSE,
                     h |-> highlightedIndex, n |-> Len(suggestions)]
    /\ UNCHANGED <<blurTimers, submitted>>

\* the AbortError of the aborted fetch i reaches the catch handler, which
\* returns
AbortSettles ==
    /\ OnPage
    /\ \E i \in DOMAIN requests :
        /\ requests[i].state = "aborted"
        /\ CommitSearch([Search EXCEPT !.requests = Settled(i)])
        /\ slast' = [op |-> "abortError", req |-> i, aborted |-> TRUE,
                     h |-> highlightedIndex, n |-> Len(suggestions)]
    /\ UNCHANGED <<blurTimers, submitted>>

NextSearch ==
    \/ Focus
    \/ Blur
    \/ BlurTimeout
    \/ ClickOutside
    \/ InputEvent
    \/ KeyDown
    \/ ClickSuggestion
    \/ ResponseArrives
    \/ BodyArrives
    \/ FetchFails
    \/ AbortSettles

SpecSearch == InitSearch /\ [][NextSearch]_vars

-----------------------------------------------------------------------------
(* Properties of the search autocomplete *)

\* the fetches that are neither aborted nor settled
Unaborted(rs) == {i \in DOMAIN rs : InFlight(rs[i])}
\* the step handled an arrival (response, error or abort error) of a fetch
IsArrival(h) == h.op \in {"head", "body", "error", "abortError"}

\* C19: issuing a new suggestion request aborts any request still in flight,
\* so at most one un-aborted request exists at any time, and the response of
\* an aborted (superseded) request never changes the suggestion list or the
\* highlight, whatever order the responses arrive in.
C19_NewRequestSupersedes ==
    [][/\ Cardinality(Unaborted(requests')) <= 1
       /\ Len(requests') > Len(requests) =>
              /\ Unaborted(requests') = {Len(requests')}
              /\ currentAbortController' = Len(requests')
       /\ IsArrival(slast') =>
              \/ /\ slast'.req = currentAbortController
                 /\ InFlight(requests[slast'.req])
              \/ /\ requests[slast'.req].state = "aborted"
                 /\ suggestions' = suggestions
                 /\ highlightedIndex' = highlightedIndex]_vars

\* the abort error of the first fetch was handled while the second fetch had
\* already been answered and rendered with a highlight chosen
C19_Witness ==
    /\ slast.op = "abortError" /\ slast.req = 1
    /\ Len(requests) >= 2
    /\ requests[2].state = "done"
    /\ Len(suggestions) >= 2 /\ highlightedIndex = 1

\* C20 as stated: with a non-empty list ArrowDown and ArrowUp move the
\* highlight by one position; Enter on a highlighted suggestion copies it
\* into the input, clears the list and submits; Tab on a highlighted
\* suggestion copies it and clears the list without submitting; Escape clears
\* the list and highlight without changing the input or submitting.
C20_KeysMoveByOne ==
    [][(slast'.op = "keydown" /\ Len(suggestions) > 0) =>
          LET h == highlightedIndex
              chosen == suggestions[h + 1]
          IN /\ slast'.key = "ArrowDown" =>
                    highlightedIndex' = h + 1
             /\ slast'.key = "ArrowUp" =>
                    highlightedIndex' = h - 1
             /\ slast'.key \in {"ArrowDown", "ArrowUp"} =>
                    /\ suggestions' = suggestions
                    /\ searchValue' = searchValue
                    /\ submitted' = << >>
             /\ (slast'.key = "Enter" /\ h >= 0) =>
                    /\ searchValue' = chosen
                    /\ suggestions' = << >>
                    /\ submitted' = <<chosen>>
             /\ (slast'.key = "Tab" /\ h >= 0) =>
                    /\ searchValue' = chosen
                    /\ suggestions' = << >>
                    /\ submitted' = << >>
             /\ slast'.key = "Escape" =>
                    /\ suggestions' = << >>
                    /\ highlightedIndex' = -1
                    /\ searchValue' = searchValue
                    /\ submitted' = << >>]_vars

\* C20 amended: as C20, except that ArrowDown moves the highlight down by one
\* position but not past the last suggestion, and ArrowUp moves it up by one
\* position but not past "no highlight" (-1).
C20_KeysMoveByOneClamped ==
    [][(slast'.op = "keydown" /\ Len(suggestions) > 0) =>
          LET h == highlightedIndex
              chosen == suggestions[h + 1]
          IN /\ slast'.key = "ArrowDown" =>
                    highlightedIndex' =
                        IF h = Len(suggestions) - 1 THEN h ELSE h + 1
             /\ slast'.key = "ArrowUp" =>
                    highlightedIndex' = IF h = -1 THEN h ELSE h - 1
             /\ slast'.key \in {"ArrowDown", "ArrowUp"} =>
                    /\ suggestions' = suggestions
                    /\ searchValue' = searchValue
                    /\ submitted' = << >>
             /\ (slast'.key = "Enter" /\ h >= 0) =>
                    /\ searchValue' = chosen
                    /\ suggestions' = << >>
                    /\ submitted' = <<chosen>>
             /\ (slast'.key = "Tab" /\ h >= 0) =>
                    /\ searchValue' = chosen
                    /\ suggestions' = << >>
                    /\ submitted' = << >>
             /\ slast'.key = "Escape" =>
                    /\ suggestions' = << >>
                    /\ highlightedIndex' = -1
                    /\ searchValue' = searchValue
                    /\ submitted' = << >>]_vars

\* ArrowDown was pressed with the last of three suggestions highlighted, and
\* the highlight is still on it
C20_Witness ==
    /\ slast.op = "keydown" /\ slast.key = "ArrowDown"
    /\ slast.n = 3 /\ slast.h = 2
    /\ Len(suggestions) = 3 /\ highlightedIndex = 2
    /\ submitted = << >>

\* C21: no suggestion request is issued while the trimmed search input has
\* fewer than 3 characters; such an input event clears the suggestion list
\* and the highlight instead.
C21_ShortInputIssuesNoRequest ==
    [][/\ Len(requests') > Len(requests) =>
              /\ slast'.op = "input"
              /\ Len(Trim(searchValue')) >= 3
              /\ requests'[Len(requests')].query = Trim(searchValue')
       /\ (slast'.op = "input" /\ Len(Trim(searchValue')) < 3) =>
              /\ Len(requests') = Len(requests)
              /\ suggestions' = << >>
              /\ highlightedIndex' = -1]_vars

\* " ab " was typed while three suggestions were shown, the second of them
\* highlighted
C21_Witness ==
    /\ slast.op = "input" /\ slast.n = 3 /\ slast.h = 1
    /\ searchValue = <<" ", "a", "b", " ">>
    /\ suggestions = << >> /\ highlightedIndex = -1
    /\ Len(requests) = 1

C29_FailuresClearAbortsDoNot ==
    [][/\ slast'.op = "error" =>
              suggestions' = << >> /\ highlightedIndex' = -1
       /\ (slast'.op = "head" /\ ~slast'.ok) =>
              suggestions' = << >>
       /\ slast'.op = "abortError" =>
              suggestions' = suggestions /\ highlightedIndex' = highlightedIndex
       /\ (slast'.op \in {"error", "head", "abortError"}) =>
              /\ searchValue' = searchValue
              /\ requests'[slast'.req].state \in {"body", "done"}]_vars

\* a fetch failed while three suggestions of an earlier response were shown,
\* the second of them highlighted
C29_Witness ==
    /\ slast.op = "error" /\ slast.req = 2
    /\ slast.n = 3 /\ slast.h = 1
    /\ suggestions = << >> /\ highlightedIndex = -1

\* C25: after a start edit that sets entry k's start to a non-empty value the
\* later starts form a uniform chain: for every i > k, start[i] =
\* start[i-1] + delta with one single delta for the whole cascade, each entry
\* using the just-updated start of its predecessor; the entries before k are
\* unchanged.
C25_CascadeIsUniformChain ==
    [][(last'.op = "start" /\ HasStart(entries'[last'.k])) =>
          LET k == last'.k
              n == Len(entries')
          IN /\ n = Len(entries)
             /\ \A i \in 1..(k - 1) : entries'[i] = entries[i]
             /\ \A i \in (k + 1)..n : HasStart(entries'[i])
             /\ \A i \in (k + 2)..n :
                    entries'[i].start[1] - entries'[i - 1].start[1]
                        = entries'[k + 1].start[1] - entries'[k].start[1]]_vars

\* the start of the second of four rows was edited to one day after the
\* first: the third and fourth rows follow at one day each
C25_Witness ==
    /\ Ready /\ last.op = "start" /\ last.k = 2 /\ Len(entries) = 4
    /\ \A i \in 1..4 : HasStart(entries[i])
    /\ \A i \in 2..4 :
           entries[i].start[1] - entries[i - 1].start[1] = 24 * 60

\* C26: an end edit that leaves the entry with end earlier than start attaches
\* the validity message to that end field and leaves eventDuration, the
\* duration field and the start, end and validity of every other entry
\* unchanged.
C26_RejectedEndEditChangesNothingElse ==
    [][(/\ last'.op = "end"
        /\ HasStart(entries'[last'.k]) /\ HasEnd(entries'[last'.k])
        /\ entries'[last'.k].end[1] < entries'[last'.k].start[1]) =>
          /\ entries'[last'.k].msg = "End time must be after start time."
          /\ entries'[last'.k].start = entries[last'.k].start
          /\ Len(entries') = Len(entries)
          /\ \A i \in DOMAIN entries : i # last'.k => entries'[i] = entries[i]
          /\ eventDuration' = eventDuration
          /\ durationValue' = durationValue
          /\ durationMsg' = durationMsg]_vars

\* the end of the second row was set before its start while the first row
\* keeps following a duration of two hours
C26_Witness ==
    /\ Ready /\ last.op = "end" /\ last.k = 2 /\ Len(entries) >= 2
    /\ HasStart(entries[2]) /\ HasEnd(entries[2])
    /\ entries[2].end[1] < entries[2].start[1]
    /\ entries[2].msg # "" /\ entries[1].msg = ""
    /\ eventDuration = 120 /\ EndIsStartPlus(entries[1], 120)
    /\ durationValue = T_000200

\* C30: in every reachable state of the multi-entry form, every entry whose
\* start and end are both present with start >= end carries a non-empty
\* validity message on its end field, whatever the order of the edits.
C30_NotAfterStartAlwaysFlagged ==
    Ready =>
        \A i \in DOMAIN entries :
            (/\ HasStart(entries[i]) /\ HasEnd(entries[i])
             /\ entries[i].start[1] >= entries[i].end[1]) =>
                entries[i].msg # ""

\* C24: the synchroniser's handlers only set or clear validity messages and
\* never block or trigger a submission themselves; a submit attempt is
\* prevented by the submit handler exactly when the form's validity check
\* fails, in particular whenever an end field or the duration field holds a
\* non-empty validity message, and is let through otherwise.
C24_SubmitGateFollowsValidity ==
    [][/\ last'.op # "submit" => pc' # "left"
       /\ last'.op = "submit" =>
              LET flagged == \/ \E i \in DOMAIN entries : entries[i].msg # ""
                             \/ durationMsg # ""
              IN /\ pc' \in {"ready", "left"}
                 /\ flagged => pc' = "ready"
                 /\ pc' = "left" <=> (last'.native /\ ~flagged)
                 /\ entries' = entries
                 /\ eventDuration' = eventDuration
                 /\ durationValue' = durationValue
                 /\ durationMsg' = durationMsg]_vars

\* a submission was prevented although every other field was fine: the end
\* of the second row is before its start and carries the message
C24_Witness ==
    /\ last.op = "submit" /\ last.native /\ pc = "ready"
    /\ Len(entries) >= 2
    /\ entries[2].msg # "" /\ entries[1].msg = "" /\ durationMsg = ""

\* C31: in every reachable state of the multi-entry form, an entry whose
\* start and end are both present with start < end has no validity message
\* on its end field, whether or not a duration is set.
C31_ValidEntryHasNoMessage ==
    Ready =>
        \A i \in DOMAIN entries :
            (/\ HasStart(entries[i]) /\ HasEnd(entries[i])
             /\ entries[i].start[1] < entries[i].end[1]) =>
                entries[i].msg = ""

\* C32: in every reachable state, the duration field carries its validity
\* message only if its current text does not parse to a positive duration.
C32_DurationMessageOnlyOnInvalidText ==
    Ready => (durationMsg # "" => ~(parseDuration(durationValue) > 0))

\* C33: in every reachable state in which the duration field has no validity
\* message and its text parses to a positive value p, eventDuration equals p.
C33_DisplayedDurationIsEventDuration ==
    Ready =>
        ((durationMsg = "" /\ parseDuration(durationValue) > 0) =>
            eventDuration = parseDuration(durationValue))

\* C34: a start edit on any entry (with its cascade), an add click and a
\* remove click leave eventDuration and the duration field, its text and its
\* validity message, unchanged; eventDuration changes only during a duration
\* edit, an end edit or initialise.
C34_OnlyDurationAndEndEditsSetDuration ==
    [][/\ last'.op \in {"start", "add", "remove"} =>
              /\ eventDuration' = eventDuration
              /\ durationValue' = durationValue
              /\ durationMsg' = durationMsg
       /\ eventDuration' # eventDuration =>
              last'.op \in {"duration", "end", "init"}]_vars

\* a start edit on the first of several rows has moved the later rows and
\* rewritten every end while a duration of 2 h is set: the duration and its
\* field are as before
C34_Witness ==
    /\ last.op = "start" /\ last.k = 1 /\ Len(entries) >= 2
    /\ eventDuration = 120 /\ durationValue = T_000200
    /\ \A i \in DOMAIN entries : EndIsStartPlus(entries[i], 120)
    /\ entries[1].start = <<At(2, 9, 0)>>

\* C35: whenever the add click appends an entry, the appended entry has a
\* non-empty start, in every reachable list state.
C35_AppendedEntryHasStart ==
    [][(last'.op = "add" /\ Len(entries') = Len(entries) + 1) =>
            HasStart(entries'[Len(entries')])]_vars

\* C36: once the suggestion list has been cleared because the trimmed input
\* dropped below 3 characters, it stays empty until a new request is issued.
\* While the trimmed input is shorter than 3 characters the last input event
\* cleared the list and no request has been issued since, so the response of
\* a request arriving then must leave the list empty.
C36_ClearedListStaysEmpty ==
    [][(IsArrival(slast') /\ Len(Trim(searchValue)) < 3
        /\ suggestions = << >>) =>
            suggestions' = << >>]_vars

\* C37: in every reachable state of the search autocomplete, highlightedIndex
\* is -1 or a valid index of the current suggestion list: at least -1 and
\* below the length of the list, hence -1 when the list is empty.
C37_HighlightWithinList ==
    /\ highlightedIndex >= -1
    /\ highlightedIndex < Len(suggestions) \/ highlightedIndex = -1

-----------------------------------------------------------------------------
(* Part 4: the single-entry event form *)

MatchMsg == "End time does not match duration"
AfterMsg == "End time must be after start time"

\* the fields of the form as a record
Single ==
    [start |-> emStart, end |-> emEnd, duration |-> emDuration,
     endMsg |-> emEndMsg]

RECURSIVE Split(_)
\* text.split(":")
Split(t) ==
    IF \A i \in DOMAIN t : t[i] # ":" THEN <<t>>
    ELSE LET i == CHOOSE j \in DOMAIN t :
                      t[j] = ":" /\ \A l \in 1..(j - 1) : t[l] # ":"
         IN <<SubSeq(t, 1, i - 1)>> \o Split(SubSeq(t, i + 1, Len(t)))

RECURSIVE Decimal(_)
\* the value of a text of digits
Decimal(t) ==
    IF t = << >> THEN 0
    ELSE Decimal(SubSeq(t, 1, Len(t) - 1)) * 10 + DigitVal(t[Len(t)])

\* Number(field) of a text without blanks: 0 for the empty text, NaN for a
\* text that is not a decimal numeral
NumberOf(t) ==
    IF \A i \in DOMAIN t : IsDigit(t[i]) THEN Num(Decimal(t)) ELSE NaN

\* start moved on by the days, hours and minutes of text.split(":").map(Number)
\* (setDate, setHours, setMinutes); an Invalid Date when one of the first
\* three fields is missing or not a number
PlusFields(start, text) ==
    LET fields == Split(text)
    IN IF Len(fields) < 3 THEN NaN
       ELSE LET days == NumberOf(fields[1])
                hours == NumberOf(fields[2])
                minutes == NumberOf(fields[3])
            IN IF days = NaN \/ hours = NaN \/ minutes = NaN THEN NaN
               ELSE Plus(GetTime(start),
                         Num((days[1] * 24 + hours[1]) * 60 + minutes[1]))

\* /^\d{2}:(?:[01]\d|2[0-3]):[0-5]\d$/.test(durationInput.value)
MatchesStrictDuration(t) ==
    /\ MatchesDuration(t)
    /\ Number2(SubSeq(t, 4, 5)) <= 23
    /\ Number2(SubSeq(t, 7, 8)) <= 59

\* updateDuration() of the single-entry form
updateDurationSingle(e) ==
    IF e.start # Blank /\ e.end # Blank
    THEN LET diff == GetTime(e.end)[1] - GetTime(e.start)[1]
             duration == IF diff < 0 THEN 0 ELSE diff
         IN [e EXCEPT !.duration = formatDuration(duration)]
    ELSE e

updateEndTime(e) ==
    IF e.start # Blank /\ e.duration # << >> /\ MatchesStrictDuration(e.duration)
    THEN [e EXCEPT !.end = formatDateTimeInput(PlusFields(e.start, e.duration))]
    ELSE e

\* second "input" listener of endTimeInput: check if end time is after start
\* time
CheckEndAfterStart(e) ==
    IF e.start # Blank /\ e.end # Blank
    THEN IF GetTime(e.end)[1] <= GetTime(e.start)[1]
         THEN [e EXCEPT !.endMsg = AfterMsg]
         ELSE [e EXCEPT !.endMsg = ""]
    ELSE e

\* third "input" listener of endTimeInput: check if endtime = starttime +
\* duration; a comparison of two NaN with !== is true
CheckEndMatchesDuration(e) ==
    IF e.start # Blank /\ e.duration # << >>
    THEN IF GetTime(e.end) = NaN \/ PlusFields(e.start, e.duration) = NaN
            \/ GetTime(e.end) # PlusFields(e.start, e.duration)
         THEN [e EXCEPT !.endMsg = MatchMsg]
         ELSE [e EXCEPT !.endMsg = ""]
    ELSE e

\* the "input" listener of startTimeInput
StartTimeListener(e) == updateEndTime(updateDurationSingle(e))
\* the "input" listener of durationInput
DurationListener(e) == updateEndTime(e)
\* the three "input" listeners of endTimeInput, in the order they were added
EndTimeListeners(e) ==
    CheckEndMatchesDuration(CheckEndAfterStart(updateDurationSingle(e)))

\* trigger events on load: an input event on the start and then on the end
\* field, for each that has a value
TriggerOnLoad(e) ==
    LET e1 == IF e.start # Blank THEN StartTimeListener(e) ELSE e
    IN IF e1.end # Blank THEN EndTimeListeners(e1) ELSE e1

SingleStarts == {Blank, <<At(0, 9, 0)>>, <<At(1, 9, 0)>>}
SingleEnds == {Blank, <<At(0, 9, 0)>>, <<At(0, 11, 0)>>, <<At(1, 9, 0)>>}
SingleDurations ==
    {T_empty, T_000200, T_1_30, DurationText(0, 25, 0), DurationText(1, 0, 0)}

CommitSingle(e) ==
    /\ emStart' = e.start
    /\ emEnd' = e.end
    /\ emDuration' = e.duration
    /\ emEndMsg' = e.endMsg
    /\ UNCHANGED <<formVars, pureVars, searchVars, keysVars, runVars>>

\* the page as served: a new event (empty fields) or an event being edited
InitSingle ==
    /\ \/ emStart = Blank /\ emEnd = Blank /\ emDuration = T_empty
       \/ /\ emStart = <<At(0, 9, 0)>>
          /\ emEnd \in {<<At(0, 11, 0)>>, <<At(0, 9, 0)>>}
          /\ emDuration \in {T_empty, T_000200}
    /\ emEndMsg = ""
    /\ emPc = "load"
    /\ emLast = [op |-> "none"]
    /\ FormServed
    /\ NoCall
    /\ SearchLoaded
    /\ KeysServed
    /\ RunIdle

SingleLoad ==
    /\ emPc = "load"
    /\ CommitSingle(TriggerOnLoad(Single))
    /\ emPc' = "ready"
    /\ emLast' = [op |-> "load"]

SingleStartEdit ==
    /\ emPc = "ready"
    /\ \E v \in SingleStarts :
        /\ v # emStart
        /\ CommitSingle(StartTimeListener([Single EXCEPT !.start = v]))
    /\ emLast' = [op |-> "start"]
    /\ UNCHANGED emPc

SingleEndEdit ==
    /\ emPc = "ready"
    /\ \E v \in SingleEnds :
        /\ v # emEnd
        /\ CommitSingle(EndTimeListeners([Single EXCEPT !.end = v]))
    /\ emLast' = [op |-> "end"]
    /\ UNCHANGED emPc

SingleDurationEdit ==
    /\ emPc = "ready"
    /\ \E t \in SingleDurations :
        /\ t # emDuration
        /\ CommitSingle(DurationListener([Single EXCEPT !.duration = t]))
    /\ emLast' = [op |-> "duration"]
    /\ UNCHANGED emPc

\* form "submit" listener; the other constraints of the markup are met or not
SingleSubmit ==
    /\ emPc = "ready"
    /\ \E native \in BOOLEAN :
        LET valid == native /\ emEndMsg = ""
        IN /\ emPc' = IF valid THEN "left" ELSE "ready"
           /\ emLast' = [op |-> "submit", native |-> native]
    /\ UNCHANGED <<emStart, emEnd, emDuration, emEndMsg, formVars, pureVars,
                   searchVars, keysVars, runVars>>

NextSingle ==
    \/ SingleLoad
    \/ SingleStartEdit
    \/ SingleEndEdit
    \/ SingleDurationEdit
    \/ SingleSubmit

SpecSingle == InitSingle /\ [][NextSingle]_vars

-----------------------------------------------------------------------------
(* Properties of the single-entry event form *)

\* C23: in the single-entry event form, after any end-time edit that leaves
\* start and end both set with end <= start, the end field carries a
\* non-empty validity message, so the end time is only accepted when it is
\* after the start time.
C23_SingleEndNotAfterStartFlagged ==
    (/\ emLast.op = "end" /\ emStart # Blank /\ emEnd # Blank
     /\ emEnd[1] <= emStart[1]) => emEndMsg # ""

-----------------------------------------------------------------------------
(* Part 5: the API keys page *)

\* c.toLowerCase() on the letters used here
Lower(c) ==
    CASE c = "A" -> "a" [] c = "D" -> "d" [] c = "N" -> "n" [] c = "Y" -> "y"
      [] OTHER -> c
ToLowerCase(t) == [i \in DOMAIN t |-> Lower(t[i])]
\* hay.includes(needle)
Includes(hay, needle) ==
    \E i \in 0..(Len(hay) - Len(needle)) :
        SubSeq(hay, i + 1, i + Len(needle)) = needle

\* the variables and elements of the page as a record
KeysPage ==
    [ownerSearch |-> ownerSearch, activeFilter |-> activeFilter,
     rowDisplay |-> rowDisplay, copiedKey |-> copiedKey,
     modalShown |-> modalShown, errorShown |-> errorShown,
     copySucceeded |-> copySucceeded]

filterTable(k) ==
    LET ownerValue == ToLowerCase(k.ownerSearch)
        activeValue == k.activeFilter
        Display(row) ==
            LET ownerCell == ToLowerCase(row.owner)
                activeCell == ToLowerCase(row.active)
                matchesOwner == Includes(ownerCell, ownerValue)
                matchesActive ==
                    \/ activeValue = ""
                    \/ activeValue = "yes"
                         /\ Includes(activeCell, <<"y", "e", "s">>)
                    \/ activeValue = "no" /\ Includes(activeCell, <<"n", "o">>)
            IN IF matchesOwner /\ matchesActive THEN "" ELSE "none"
    IN [k EXCEPT !.rowDisplay = [i \in DOMAIN Rows |-> Display(Rows[i])]]

\* clear filters and reset table visibility
clearFilters(k) ==
    [k EXCEPT !.ownerSearch = << >>, !.activeFilter = "",
              !.rowDisplay = [i \in DOMAIN Rows |-> ""]]

\* mutant: the modal is hidden whether or not the key was copied
tryCloseAlways(k) == [k EXCEPT !.modalShown = FALSE]

tryClose(k) ==
    IF k.copiedKey THEN [k EXCEPT !.modalShown = FALSE]
    ELSE [k EXCEPT !.errorShown = TRUE]

\* the callback of navigator.clipboard.writeText(keyText).then
CopyDone(k) ==
    [k EXCEPT !.copiedKey = TRUE, !.copySucceeded = TRUE,
              !.errorShown = FALSE]

OwnerValues == {<< >>, <<"a", "n">>, <<"D", "a">>, <<"x">>}
ActiveValues == {"", "yes", "no"}

CommitKeys(k) ==
    /\ ownerSearch' = k.ownerSearch
    /\ activeFilter' = k.activeFilter
    /\ rowDisplay' = k.rowDisplay
    /\ copiedKey' = k.copiedKey
    /\ modalShown' = k.modalShown
    /\ errorShown' = k.errorShown
    /\ copySucceeded' = k.copySucceeded
    /\ UNCHANGED <<formVars, pureVars, searchVars, singleVars, runVars>>

InitKeys ==
    /\ KeysServed
    /\ FormServed
    /\ NoCall
    /\ SearchLoaded
    /\ SingleServed
    /\ RunIdle

\* ownerInput "input" listener; the page behind the modal cannot be used
\* while the modal is shown
OwnerInput ==
    /\ ~modalShown
    /\ \E v \in OwnerValues :
        /\ v # ownerSearch
        /\ CommitKeys(filterTable([KeysPage EXCEPT !.ownerSearch = v]))
    /\ klast' = [klast EXCEPT !.op = "owner"]
    /\ UNCHANGED pendingCopies

\* activeSelect "change" listener
ActiveChange ==
    /\ ~modalShown
    /\ \E v \in ActiveValues :
        /\ v # activeFilter
        /\ CommitKeys(filterTable([KeysPage EXCEPT !.activeFilter = v]))
    /\ klast' = [klast EXCEPT !.op = "active"]
    /\ UNCHANGED pendingCopies

ClearFilters ==
    /\ ~modalShown
    /\ CommitKeys(clearFilters(KeysPage))
    /\ klast' = [klast EXCEPT !.op = "clear"]
    /\ UNCHANGED pendingCopies

\* "click" listener of headerClose and of footerClose
CloseClick ==
    /\ modalShown
    /\ CommitKeys(tryClose(KeysPage))
    /\ klast' = [op |-> "close", refused |-> klast.refused \/ ~copiedKey]
    /\ UNCHANGED pendingCopies

\* "click" listener of copyButton: the clipboard write is started
CopyClick ==
    /\ modalShown
    /\ pendingCopies < MaxPendingCopies
    /\ pendingCopies' = pendingCopies + 1
    /\ CommitKeys(KeysPage)
    /\ klast' = [klast EXCEPT !.op = "copy"]

\* a clipboard write succeeds
CopyResolves ==
    /\ pendingCopies > 0
    /\ pendingCopies' = pendingCopies - 1
    /\ CommitKeys(CopyDone(KeysPage))
    /\ klast' = [klast EXCEPT !.op = "copied"]

\* a clipboard write is refused: the promise has no rejection handler
CopyRejects ==
    /\ pendingCopies > 0
    /\ pendingCopies' = pendingCopies - 1
    /\ CommitKeys(KeysPage)
    /\ klast' = [klast EXCEPT !.op = "copyFailed"]

NextKeys ==
    \/ OwnerInput
    \/ ActiveChange
    \/ ClearFilters
    \/ CloseClick
    \/ CopyClick
    \/ CopyResolves
    \/ CopyRejects

SpecKeys == InitKeys /\ [][NextKeys]_vars

-----------------------------------------------------------------------------
(* Properties of the API keys page *)

\* C28: the API-key modal is hidden by its header or footer close control only
\* after a clipboard copy of the key has succeeded: a close attempt before a
\* successful copy leaves the modal open and shows the error message, and a
\* successful copy hides the error message and enables closing from then on.
C28_ModalClosesOnlyAfterCopy ==
    [][/\ (modalShown /\ ~modalShown') =>
              klast'.op = "close" /\ copiedKey /\ copySucceeded
       /\ (klast'.op = "close" /\ ~copiedKey) =>
              modalShown' /\ errorShown'
       /\ (klast'.op = "close" /\ copiedKey) => ~modalShown'
       /\ klast'.op = "copied" => copiedKey' /\ ~errorShown'
       /\ copiedKey => copiedKey'
       /\ copiedKey' # copiedKey => klast'.op = "copied"]_vars

\* a close attempt was refused, the key was then copied, and the next close
\* attempt hid the modal
C28_Witness ==
    /\ klast.op = "close" /\ klast.refused
    /\ copiedKey /\ ~modalShown /\ ~errorShown

-----------------------------------------------------------------------------
(* Part 6: one handler run of the form of Part 1, statement by statement.
   A run starts with one user event (or the script's own call of
   initialiseTimes) waiting for its listener; every loop iteration is a step
   of its own, so that the number of visits of a row, the number of handler
   runs and the return of the handler are things the exploration decides. *)

MaxRunEntries == 3
RunDepth == 2
MaxRuns == 2

\* the forms the server sends (see Init)
ServedForms ==
    {[entries |-> <<[start |-> s, end |-> e, msg |-> ""]>>,
      eventDuration |-> 0, durationValue |-> d, durationMsg |-> "",
      addDisabled |-> a] :
        s \in {Blank, <<At(0, 9, 0)>>},
        e \in {Blank, <<At(0, 11, 0)>>, <<At(0, 8, 0)>>},
        d \in {T_empty, T_000200},
        a \in BOOLEAN}

\* the user events form f offers
UserEvents(f) ==
    LET n == Len(f.entries)
    IN [op : {"start"}, k : 1..n, v : StartInputs]
       \cup [op : {"end"}, k : 1..n, v : EndInputs]
       \cup [op : {"duration"}, k : {0}, v : DurationInputs]
       \cup (IF n < MaxRunEntries \/ f.entries[n].start = Blank
             THEN {[op |-> "add", k |-> 0, v |-> << >>]} ELSE {})
       \cup [op : {"remove"}, k : 2..n, v : {<< >>}]

\* the form after the user's change of a field, before any listener has run
Edited(f, ev) ==
    CASE ev.op = "start" -> [f EXCEPT !.entries[ev.k].start = ev.v]
      [] ev.op = "end" -> [f EXCEPT !.entries[ev.k].end = ev.v]
      [] ev.op = "duration" -> [f EXCEPT !.durationValue = ev.v]
      [] OTHER -> f

\* the listener of event ev as one function of the form
HandlerOf(f, ev) ==
    CASE ev.op = "start" -> StartInputHandler(Edited(f, ev), ev.k)
      [] ev.op = "end" -> EndInputHandler(Edited(f, ev), ev.k)
      [] ev.op = "duration" -> DurationInputHandler(Edited(f, ev))
      [] ev.op = "add" -> AddTimeHandler(f)
      [] ev.op = "remove" -> RemoveHandler(f, ev.k)
      [] OTHER -> initialiseTimes(f)

RECURSIVE ReadyForms(_)
\* the forms the page shows after initialiseTimes and at most d user events
ReadyForms(d) ==
    IF d = 0 THEN {initialiseTimes(f) : f \in ServedForms}
    ELSE LET S == ReadyForms(d - 1)
         IN S \cup UNION {{HandlerOf(f, ev) : ev \in UserEvents(f)} : f \in S}

\* mutant: assigning a field's value dispatches an "input" event for it
ValueWriteDispatches(queue, field) == Append(queue, field)

\* input.value = ... : the assignment changes the field and queues no event
ValueWrite(queue, field) == queue

\* the event at the head of the queue is handed to its listener
Taken(r) == [r EXCEPT !.runs = @ + 1, !.queue = Tail(@)]

\* one more visit of row i
Visit(r, i) == [r EXCEPT !.visits[i] = @ + 1]

\* the listener returns
Returned(r) == [r EXCEPT !.pc = "returned"]

\* a run of the listener of event ev on form f, not yet started
NewRun(f, ev) ==
    [f |-> Edited(f, ev), f0 |-> f, ev |-> ev, pc |-> "queued", i |-> 0,
     delta |-> 0, after |-> "", runs |-> 0, queue |-> <<ev.op>>,
     visits |-> [j \in 1..Len(f.entries) |-> 0]]

\* initialiseTimes up to the validation loop: eventDuration from the first
\* row or from the duration field
DeriveDuration(f) ==
    LET first == f.entries[1]
        fromTimes == GetTime(first.end)[1] - GetTime(first.start)[1]
        fromText == parseDuration(f.durationValue)
    IN IF first.start # Blank /\ first.end # Blank
       THEN IF fromTimes >= 0
            THEN [f EXCEPT !.eventDuration = fromTimes,
                           !.durationValue = formatDuration(fromTimes)]
            ELSE f
       ELSE IF fromText > 0
            THEN IF first.start # Blank
                 THEN [f EXCEPT !.eventDuration = fromText,
                                !.entries[1].end = formatDateTimeInput(
                                    Plus(GetTime(first.start), Num(fromText)))]
                 ELSE [f EXCEPT !.eventDuration = fromText]
            ELSE f

CommitRun(r) ==
    /\ run' = r
    /\ UNCHANGED <<formVars, pureVars, searchVars, singleVars, keysVars>>

\* an event waits and no listener is running
Dispatchable(op) ==
    /\ run.pc \in {"queued", "returned"}
    /\ run.queue # << >>
    /\ run.runs < MaxRuns
    /\ run.ev.op = op

\* the runs under observation: every user event on every form of ReadyForms,
\* and the script's call of initialiseTimes on every served form
Runs ==
    UNION {{NewRun(f, ev) : ev \in UserEvents(f)} : f \in ReadyForms(RunDepth)}
    \cup {NewRun(f, [op |-> "init", k |-> 0, v |-> << >>]) : f \in ServedForms}

InitRun ==
    /\ run \in Runs
    /\ FormServed
    /\ NoCall
    /\ SearchLoaded
    /\ SingleServed
    /\ KeysServed

\* timeFields "input" listener, start field of row k: up to the for loop of
\* updateFutureStartTimes
BeginStart ==
    /\ Dispatchable("start")
    /\ LET r == Taken(run)
           k == r.ev.k
           f1 == [toggleAddTimeButton(r.f) EXCEPT !.addDisabled = FALSE]
       IN CommitRun(IF k + 1 > Len(f1.entries)
                    THEN [r EXCEPT !.f = f1, !.pc = "rowEnd"]
                    ELSE [r EXCEPT !.f = f1, !.pc = "cascade", !.i = k + 1,
                                   !.delta = CascadeDelta(f1.entries, k)])

\* one iteration of the for loop of updateFutureStartTimes, or its exit
CascadeStep ==
    /\ run.pc = "cascade"
    /\ LET es == run.f.entries
           i == run.i
       IN CommitRun(
            IF i > Len(es) THEN [run EXCEPT !.pc = "rowEnd"]
            ELSE [Visit(run, i) EXCEPT
                    !.f.entries = CascadeLoop(SubSeq(es, 1, i), i, run.delta,
                                              run.f.eventDuration)
                                  \o SubSeq(es, i + 1, Len(es)),
                    !.i = i + 1,
                    !.queue = IF es[i - 1].start = Blank THEN @
                              ELSE ValueWrite(ValueWrite(@, "start"), "end")])

\* the rest of the start branch: the end of the changed row
RowEnd ==
    /\ run.pc = "rowEnd"
    /\ LET k == run.ev.k
           e == run.f.entries[k]
       IN CommitRun(
            IF run.f.eventDuration <= 0 THEN Returned(run)
            ELSE Returned([Visit(run, k) EXCEPT
                    !.f.entries[k] = validateEndTime([e EXCEPT !.end =
                        formatDateTimeInput(Plus(GetTime(e.start),
                                                 Num(run.f.eventDuration)))]),
                    !.queue = ValueWrite(@, "end")]))

\* timeFields "input" listener, end field of row k: updateDuration up to its
\* call of syncEndTimes
BeginEnd ==
    /\ Dispatchable("end")
    /\ LET r == Taken(run)
           k == r.ev.k
           f1 == toggleAddTimeButton(r.f)
           e == f1.entries[k]
           duration == GetTime(e.end)[1] - GetTime(e.start)[1]
       IN CommitRun(
            IF e.start = Blank \/ e.end = Blank
            THEN [r EXCEPT !.f = f1, !.pc = "validate"]
            ELSE IF duration < 0
            THEN [r EXCEPT !.f = [f1 EXCEPT !.entries[k].msg = EndMsg],
                           !.pc = "validate"]
            ELSE [r EXCEPT !.f = [f1 EXCEPT !.entries[k].msg = "",
                                            !.eventDuration = duration,
                                            !.durationValue = formatDuration(duration)],
                           !.queue = ValueWrite(@, "duration"),
                           !.pc = "sync", !.i = 1, !.after = "validate"])

\* one iteration of the forEach of syncEndTimes, or its exit
SyncStep ==
    /\ run.pc = "sync"
    /\ LET es == run.f.entries
           i == run.i
       IN CommitRun(
            IF i > Len(es) THEN [run EXCEPT !.pc = run.after]
            ELSE [Visit(run, i) EXCEPT
                    !.f.entries[i] =
                        syncEndTimes([run.f EXCEPT !.entries = <<es[i]>>]).entries[1],
                    !.i = i + 1,
                    !.queue = ValueWrite(@, "end")])

\* validateEndTime(input) at the end of the end branch
ValidateEdited ==
    /\ run.pc = "validate"
    /\ LET k == run.ev.k
       IN CommitRun(Returned([Visit(run, k) EXCEPT
                                !.f.entries[k] = validateEndTime(@)]))

\* durationInput "input" listener up to its call of syncEndTimes
BeginDuration ==
    /\ Dispatchable("duration")
    /\ LET r == Taken(run)
           duration == parseDuration(r.f.durationValue)
       IN CommitRun(
            IF duration > 0
            THEN [r EXCEPT !.f.eventDuration = duration,
                           !.pc = "sync", !.i = 1, !.after = "clear"]
            ELSE Returned([r EXCEPT !.f.durationMsg = DurMsg]))

\* durationInput.setCustomValidity("") after syncEndTimes
ClearDurationMsg ==
    /\ run.pc = "clear"
    /\ CommitRun(Returned([run EXCEPT !.f.durationMsg = ""]))

\* addTimeButton "click" listener: no loop
BeginAdd ==
    /\ Dispatchable("add")
    /\ LET r == Taken(run)
           f1 == AddTimeHandler(r.f)
       IN CommitRun(Returned([r EXCEPT !.f = f1,
                        !.visits = [j \in 1..Len(f1.entries) |-> 0]]))

\* timeFields "click" listener on a remove button: no loop
BeginRemove ==
    /\ Dispatchable("remove")
    /\ LET r == Taken(run)
           f1 == RemoveHandler(r.f, r.ev.k)
       IN CommitRun(Returned([r EXCEPT !.f = f1,
                        !.visits = [j \in 1..Len(f1.entries) |-> 0]]))

\* initialiseTimes() up to its validation loop
BeginInit ==
    /\ Dispatchable("init")
    /\ LET r == Taken(run)
           f1 == DeriveDuration(r.f)
       IN CommitRun([r EXCEPT !.f = f1, !.pc = "initLoop", !.i = 1,
                        !.queue = IF f1 = r.f THEN @ ELSE ValueWrite(@, "value")])

\* one iteration of forEach(validateEndTime), or its exit and
\* toggleAddTimeButton()
InitStep ==
    /\ run.pc = "initLoop"
    /\ LET es == run.f.entries
           i == run.i
       IN CommitRun(
            IF i > Len(es) THEN Returned([run EXCEPT !.f = toggleAddTimeButton(@)])
            ELSE [Visit(run, i) EXCEPT !.f.entries[i] = validateEndTime(@),
                                       !.i = i + 1])

NextRun ==
    \/ BeginStart
    \/ CascadeStep
    \/ RowEnd
    \/ BeginEnd
    \/ SyncStep
    \/ ValidateEdited
    \/ BeginDuration
    \/ ClearDurationMsg
    \/ BeginAdd
    \/ BeginRemove
    \/ BeginInit
    \/ InitStep

SpecRun == InitRun /\ [][NextRun]_vars

\* a listener that has been entered runs to its return: JavaScript runs a
\* listener to completion, and the event loop hands a queued event to its
\* listener
SpecRunFair == SpecRun /\ WF_vars(NextRun)

\* C27: every run of a listener of the form (start edit, end edit, duration
\* edit, add, remove, initialise) returns; until then it has visited no row
\* more than twice, whatever the number of rows; the values it writes queue
\* no further event, so the one event is handled by exactly one handler run,
\* whose result is the result of the listener taken as one step
C27_OneBoundedRunPerEvent ==
    /\ [](/\ run.runs <= 1
          /\ \A j \in DOMAIN run.visits : run.visits[j] <= 2
          /\ run.pc = "returned" =>
                /\ run.runs = 1
                /\ run.queue = << >>
                /\ run.f = HandlerOf(run.f0, run.ev))
    /\ <>(run.pc = "returned")

\* an end edit on the first of three rows has redefined the duration: the
\* listener returned after one run, having visited the edited row twice and
\* the other rows once
C27_Witness ==
    /\ run.pc = "returned" /\ run.ev.op = "end" /\ run.ev.k = 1
    /\ run.runs = 1 /\ run.queue = << >>
    /\ run.visits = <<2, 1, 1>>
    /\ run.f.eventDuration # run.f0.eventDuration

====
